---- MODULE Spec2Model ----
(***************************************************************************)
(* A model of the resource monitor of ADMINISTRADOR_TAREAS                 *)
(* (src/system_monitor.py): the SystemMonitor object, its background       *)
(* monitoring thread(s), the contexts that call its public methods,        *)
(* kill_process, one sampling pass and get_processes; and of the assistant *)
(* (src/ai_assistant.py): AIAssistant's history, baselines and anomalies.  *)
(* The assistant is driven by one caller at a time, so each of its methods *)
(* is one step.                                                            *)
(*                                                                         *)
(* Contexts.  start(), stop() and register_callback() are called by one    *)
(* controlling context (src/main.py calls them from the UI thread); stop() *)
(* blocks it in join().  get_current_stats() is also called by a second,   *)
(* independent reader context.  Every threading.Thread that start() has    *)
(* created and that has not finished occupies one slot of Threads.         *)
(*                                                                         *)
(* Measured values.  A reading of psutil.cpu_percent / virtual_memory is   *)
(* represented by the tag of the cycle that took it (0: the value set by   *)
(* __init__); cache_cycle is the tag of the cycle that wrote               *)
(* _process_cache.  Cycles are numbered 1, 2, ... in the order they start. *)
(* _system_ram_percent is only ever written (get_current_stats reads the   *)
(* RAM again), so it is not part of the state.                             *)
(*                                                                         *)
(* Strings that the code lower-cases are tuples of character codes.        *)
(***************************************************************************)
EXTENDS Integers, Sequences, FiniteSets, TLC

\* ---------------------------------------------------------------- bounds
MaxThreads == 2      \* monitor threads alive at the same time
MaxCycles == 2       \* cycles started, over all threads
MaxCallbacks == 2    \* length of self.callbacks

Threads == 1..MaxThreads
Reader == MaxThreads + 1
Contexts == 1..(MaxThreads + 1)

VARIABLES
    running,             \* self.running
    monitor_thread,      \* self._monitor_thread: a slot of Threads, 0 for None
    callbacks,           \* self.callbacks
    process_cache,       \* self._process_cache, in dict (insertion) order
    system_cpu_percent,  \* self._system_cpu_percent
    lock,                \* self._lock: the context holding it, 0 when free
    pc,                  \* position of every context in its code
    cyc,                 \* per thread: tag of the cycle it is executing
    cpu_ok,              \* per thread: this cycle's cpu_percent reading succeeded
    replaced,            \* per thread: this cycle has replaced the process cache
    stats,               \* per context: the dict get_current_stats is building / returned
    delivered,           \* per thread: the callback invocations of the current cycle
    caller,              \* the controlling context: "idle" or blocked in "join"
    cycles,              \* number of cycles started so far
    cache_cycle,         \* tag of the cycle that wrote process_cache
    last_call,           \* <<start or stop, whichever was called last, self.running at that call>>
    os_type,             \* self.os_type = platform.system()
    kill_call,           \* the kill_process call that has just returned, NoKill when none
    sample,              \* the sampling pass that has just ended, NoSample when none
    gp_call,             \* the get_processes call that has just returned, NoGet when none
    process_history,     \* AIAssistant.process_history: name -> cpu, memory, timestamps
    baselines,           \* AIAssistant.baselines: name -> baseline
    current_anomalies,   \* AIAssistant.current_anomalies
    clock,               \* what time.time() returns, in seconds
    ai_call,             \* the AIAssistant call that has just returned, NoAiCall at first
    updates,             \* number of update_process_data calls so far
    last_insights_time,  \* AIAssistant.last_insights_time
    gi_call,             \* the generate_insights call that has just returned, NoInsightCall at first
    received,            \* every sample update_process_data was given so far, per name
    timing               \* the monitor loop's cycle that has just ended, on the clock of the loop

monVars == <<running, monitor_thread, callbacks, process_cache, system_cpu_percent, lock,
             pc, cyc, cpu_ok, replaced, stats, delivered, caller, cycles, cache_cycle,
             last_call>>

\* what a sampling pass on its own and get_processes write
cacheVars == <<sample, gp_call>>

\* the assistant (src/ai_assistant.py), its clock and its callers
\* what generate_insights writes
insightVars == <<last_insights_time, gi_call>>

aiVars == <<process_history, baselines, current_anomalies, clock, ai_call, updates, insightVars,
           received>>

\* what the monitor loop and get_current_stats never touch
otherVars == <<os_type, kill_call, cacheVars, aiVars, timing>>

vars == <<monVars, otherVars>>

\* ------------------------------------------------------------ strings
IsUpper(c) == c >= 65 /\ c <= 90

\* str.lower() on one character code
LowerChar(c) == IF IsUpper(c) THEN c + 32 ELSE c

\* str.lower()
Lower(s) == [i \in 1..Len(s) |-> LowerChar(s[i])]

\* ------------------------------------------------------- process sampling
\* What psutil.process_iter(attrs) yields in one pass: per process the info
\* dict (None is <<>>, a value v is <<v>>) and the fault, if any, that reading
\* it raises.
PInit == [pid |-> 1, name |-> <<105,110,105,116>>, cpu_percent |-> <<5>>,
          memory_info |-> <<100>>, status |-> "running", fault |-> "none"]
PXorg == [pid |-> 2, name |-> <<88,111,114,103>>, cpu_percent |-> <<>>,
          memory_info |-> <<>>, status |-> "sleeping", fault |-> "none"]
PGone == [pid |-> 3, name |-> <<112,121,116,104,111,110>>, cpu_percent |-> <<40>>,
          memory_info |-> <<300>>, status |-> "zombie", fault |-> "ZombieProcess"]

\* the process table as cycle k finds it
OsEnumeration(k) == IF k % 2 = 1 THEN <<PInit>> ELSE <<PInit, PGone, PXorg>>

CaughtFaults == {"NoSuchProcess", "AccessDenied", "ZombieProcess"}

ProcessInfo(pinfo) ==
    [pid |-> pinfo.pid,
     name |-> pinfo.name,
     cpu |-> IF pinfo.cpu_percent = <<>> THEN 0 ELSE pinfo.cpu_percent[1],
     memory |-> IF pinfo.memory_info = <<>> THEN 0 ELSE pinfo.memory_info[1],
     status |-> pinfo.status]

\* new_processes[pid] = process_info on a dict kept in insertion order
DictSet(d, info) ==
    IF \E i \in 1..Len(d) : d[i].pid = info.pid
    THEN [i \in 1..Len(d) |-> IF d[i].pid = info.pid THEN info ELSE d[i]]
    ELSE Append(d, info)

\* the for loop with `break` in place of `continue`
RECURSIVE CollectFromBreaking(_, _)
CollectFromBreaking(enum, acc) ==
    IF enum = <<>> THEN acc
    ELSE IF Head(enum).fault \in CaughtFaults
         THEN acc
         ELSE CollectFromBreaking(Tail(enum), DictSet(acc, ProcessInfo(Head(enum))))

RECURSIVE CollectFrom(_, _)
CollectFrom(enum, acc) ==
    IF enum = <<>> THEN acc
    ELSE IF Head(enum).fault \in CaughtFaults
         THEN CollectFrom(Tail(enum), acc)
         ELSE CollectFrom(Tail(enum), DictSet(acc, ProcessInfo(Head(enum))))

\* the dict _collect_processes_optimized builds from one enumeration
CollectProcessesOptimized(enum) == CollectFrom(enum, <<>>)

\* ------------------------------------------------------------- monitor
NoStats == [cpu_percent |-> 0, process_count |-> 0, processes |-> <<>>, list_cycle |-> 0]

Alive(t) == pc[t] \notin {"unborn", "done"}

FreeSlots == {t \in Threads : ~Alive(t)}

MonitorInit ==
    /\ running = FALSE
    /\ monitor_thread = 0
    /\ callbacks = <<>>
    /\ process_cache = <<>>
    /\ system_cpu_percent = 0
    /\ lock = 0
    /\ pc = [c \in Contexts |-> IF c = Reader THEN "idle" ELSE "unborn"]
    /\ cyc = [t \in Threads |-> 0]
    /\ cpu_ok = [t \in Threads |-> FALSE]
    /\ replaced = [t \in Threads |-> FALSE]
    /\ stats = [c \in Contexts |-> NoStats]
    /\ delivered = [t \in Threads |-> <<>>]
    /\ caller = "idle"
    /\ cycles = 0
    /\ cache_cycle = 0
    /\ last_call = <<"none", FALSE>>

\* ----------------------------------------------------------- get_processes
\* `sub in s` on strings
Contains(sub, s) ==
    \E i \in 0..(Len(s) - Len(sub)) : SubSeq(s, i + 1, i + Len(sub)) = sub

\* the filter comparing the names as they are
FilterProcessesCaseSensitive(processes, filter_text) ==
    IF filter_text # <<>>
    THEN SelectSeq(processes, LAMBDA p : Contains(filter_text, p.name))
    ELSE processes

\* the processes list after the `if filter_text:` statement
FilterProcesses(processes, filter_text) ==
    IF filter_text # <<>>
    THEN SelectSeq(processes, LAMBDA p : Contains(Lower(filter_text), Lower(p.name)))
    ELSE processes

SortKeys == {"cpu", "memory", "name", "pid"}

\* sort_key with the default of dict.get being the pid key
SortKeyDefaultPid(sort_by, p) ==
    IF sort_by = "cpu" THEN <<p.cpu>>
    ELSE IF sort_by = "memory" THEN <<p.memory>>
    ELSE IF sort_by = "name" THEN Lower(p.name)
    ELSE <<p.pid>>

\* sort_key(p), every key a tuple: a string is the tuple of its codes, a number
\* n is <<n>>; an unknown sort_by takes the default of dict.get
SortKey(sort_by, p) ==
    IF sort_by = "cpu" THEN <<p.cpu>>
    ELSE IF sort_by = "memory" THEN <<p.memory>>
    ELSE IF sort_by = "name" THEN Lower(p.name)
    ELSE IF sort_by = "pid" THEN <<p.pid>>
    ELSE <<p.cpu>>

\* a < b on two keys: numbers by value, strings code by code, a proper prefix
\* first
KeyLess(a, b) ==
    \E i \in 1..(Len(a) + 1) :
        /\ \A j \in 1..(i - 1) : j <= Len(b) /\ a[j] = b[j]
        /\ IF i > Len(a) THEN Len(b) >= i
           ELSE i <= Len(b) /\ a[i] < b[i]

\* x has to come before y in the sorted list
SortsBefore(sort_by, reverse, x, y) ==
    IF reverse THEN KeyLess(SortKey(sort_by, y), SortKey(sort_by, x))
    ELSE KeyLess(SortKey(sort_by, x), SortKey(sort_by, y))

\* the sorted list with x, the next element of the input, put in: behind every
\* element it does not have to come before (list.sort is stable, also with
\* reverse=True)
SortInsert(sorted, x, sort_by, reverse) ==
    LET k == Cardinality({i \in 1..Len(sorted) : ~SortsBefore(sort_by, reverse, x, sorted[i])})
    IN SubSeq(sorted, 1, k) \o <<x>> \o SubSeq(sorted, k + 1, Len(sorted))

RECURSIVE SortFrom(_, _, _, _)
SortFrom(processes, sorted, sort_by, reverse) ==
    IF processes = <<>> THEN sorted
    ELSE SortFrom(Tail(processes), SortInsert(sorted, Head(processes), sort_by, reverse),
                  sort_by, reverse)

\* processes.sort(key=sort_key, reverse=reverse)
SortProcesses(processes, sort_by, reverse) == SortFrom(processes, <<>>, sort_by, reverse)

\* processes[:limit]
SliceTo(processes, limit) ==
    IF limit >= Len(processes) THEN processes
    ELSE IF limit >= 0 THEN SubSeq(processes, 1, limit)
    ELSE IF Len(processes) + limit > 0 THEN SubSeq(processes, 1, Len(processes) + limit)
    ELSE <<>>

\* get_processes truncating the copy before it sorts
GetProcessesTruncatingFirst(cache, sort_by, reverse, limit, filter_text) ==
    SortProcesses(SliceTo(FilterProcesses(cache, filter_text), limit), sort_by, reverse)

\* get_processes(sort_by, reverse, limit, filter_text) on the copy of the cache
\* taken under the lock
GetProcesses(cache, sort_by, reverse, limit, filter_text) ==
    SliceTo(SortProcesses(FilterProcesses(cache, filter_text), sort_by, reverse), limit)

\* the arguments get_processes is called with
SortBys == SortKeys \cup {"user"}
Limits == {-1, 0, 1, 2, 100}
FilterTexts == { <<>>, <<105,110>>, <<73,78>>, <<79>>, <<122,122>> }   \* '', 'in', 'IN', 'O', 'zz'

NoSample == [enum |-> <<>>, raised |-> FALSE, taken |-> FALSE]

NoGet == [sort_by |-> "", reverse |-> FALSE, limit |-> 0, filter_text |-> <<>>,
          cache |-> <<>>, result |-> <<>>, taken |-> FALSE]

\* get_processes is called and returns: the lock is taken, the cache copied,
\* the lock released, and the copy filtered, sorted and truncated
GetProcessesCall ==
    /\ gp_call = NoGet
    /\ sample = NoSample
    /\ lock = 0
    /\ \E sort_by \in SortBys, reverse \in BOOLEAN, limit \in Limits, filter_text \in FilterTexts :
         gp_call' = [sort_by |-> sort_by, reverse |-> reverse, limit |-> limit,
                     filter_text |-> filter_text, cache |-> process_cache,
                     result |-> GetProcesses(process_cache, sort_by, reverse, limit, filter_text),
                     taken |-> TRUE]
    /\ UNCHANGED <<monVars, os_type, kill_call, sample, aiVars, timing>>

\* the caller has taken the list
GetProcessesReturned ==
    /\ gp_call # NoGet
    /\ gp_call' = NoGet
    /\ UNCHANGED <<monVars, os_type, kill_call, sample, aiVars, timing>>

\* ------------------------------------------ one sampling pass on its own
MaxProcs == 3        \* processes one enumeration yields

\* two more processes: pid 3 once it can be read, and a second 'init' in
\* another case, with the cpu of PInit and the memory of PPython
PPython == [pid |-> 3, name |-> <<112,121,116,104,111,110>>, cpu_percent |-> <<40>>,
            memory_info |-> <<300>>, status |-> "running", fault |-> "none"]
PInitCap == [pid |-> 4, name |-> <<73,110,105,116>>, cpu_percent |-> <<5>>,
             memory_info |-> <<300>>, status |-> "sleeping", fault |-> "none"]

\* What process_iter can yield for one process: its info, or a fault raised
\* inside the try body while it is read.  "OSError" stands for every exception
\* the except clause of line 128 does not name.
SampleItems ==
    {PInit, PXorg, PPython, PInitCap}
      \cup { [PInit EXCEPT !.fault = "AccessDenied"],
             [PXorg EXCEPT !.fault = "NoSuchProcess"],
             PGone,
             [PInitCap EXCEPT !.fault = "OSError"] }

\* process_iter yields every pid once
Enumerations ==
    { e \in UNION { [1..n -> SampleItems] : n \in 0..MaxProcs } :
        \A i, j \in 1..Len(e) : i # j => e[i].pid # e[j].pid }

\* the for loop of _collect_processes_optimized is left by an exception
CollectRaises(enum) ==
    \E i \in 1..Len(enum) : enum[i].fault \notin CaughtFaults \cup {"none"}

\* _collect_processes_optimized() is called and ends: by line 132 and the
\* return, or by an exception that leaves the cache as it was
Collect ==
    /\ sample = NoSample
    /\ gp_call = NoGet
    /\ \E enum \in Enumerations :
         /\ sample' = [enum |-> enum, raised |-> CollectRaises(enum), taken |-> TRUE]
         /\ process_cache' = IF CollectRaises(enum) THEN process_cache
                             ELSE CollectProcessesOptimized(enum)
    /\ UNCHANGED <<running, monitor_thread, callbacks, system_cpu_percent, lock, pc, cyc,
                   cpu_ok, replaced, stats, delivered, caller, cycles, cache_cycle, last_call>>
    /\ UNCHANGED <<os_type, kill_call, gp_call, aiVars, timing>>

\* the caller of the pass goes on
CollectReturned ==
    /\ sample # NoSample
    /\ sample' = NoSample
    /\ UNCHANGED <<monVars, os_type, kill_call, gp_call, aiVars, timing>>

\* ------------------------- get_processes while the loop replaces the cache
MaxPasses == 3       \* sampling passes that replace the cache

\* the process table as pass k finds it: the readings of a process change from
\* pass to pass, and the second 'Init' is alive in the odd passes only
PassEnumeration(k) ==
    LET init == [PInit EXCEPT !.cpu_percent = <<k>>]
        python == [PPython EXCEPT !.memory_info = <<100 * k>>]
        initCap == [PInitCap EXCEPT !.cpu_percent = <<10 - k>>]
    IN  IF k % 2 = 1 THEN <<init, python, initCap>> ELSE <<python, init>>

\* the list the filter, the sort and the slice work on is the local copy,
\* refreshed from the cache it is read from again
ProcessesRefreshed(copy, cache) ==
    [i \in 1..Len(copy) |-> IF i = 1 /\ cache # <<>> THEN cache[1] ELSE copy[i]]

\* the list the filter, the sort and the slice work on: the local `processes`,
\* never self._process_cache again
Processes(copy, cache) == copy

\* get_processes is called: the lock is taken, the values of the dict that
\* self._process_cache names at that moment are copied, the lock is released
GetProcessesCopy ==
    /\ gp_call = NoGet
    /\ lock = 0
    /\ \E sort_by \in SortBys, reverse \in BOOLEAN, limit \in Limits, filter_text \in FilterTexts :
         gp_call' = [sort_by |-> sort_by, reverse |-> reverse, limit |-> limit,
                     filter_text |-> filter_text, cache |-> process_cache,
                     result |-> <<>>, taken |-> FALSE]
    /\ UNCHANGED <<monVars, os_type, kill_call, sample, aiVars, timing>>

\* the rest of get_processes: the copy is filtered, sorted and truncated, and
\* the call returns
GetProcessesFilterSort ==
    /\ gp_call # NoGet
    /\ ~gp_call.taken
    /\ gp_call' = [gp_call EXCEPT
                     !.result = GetProcesses(Processes(gp_call.cache, process_cache),
                                             gp_call.sort_by, gp_call.reverse,
                                             gp_call.limit, gp_call.filter_text),
                     !.taken = TRUE]
    /\ UNCHANGED <<monVars, os_type, kill_call, sample, aiVars, timing>>

\* the caller has taken the list of a call that returned
GetProcessesTaken == gp_call.taken /\ GetProcessesReturned

\* a sampling pass of the monitor loop ends at line 132: the dict it built
\* replaces the cache, without the lock
ReplaceCache ==
    /\ cache_cycle < MaxPasses
    /\ process_cache' = CollectProcessesOptimized(PassEnumeration(cache_cycle + 1))
    /\ cache_cycle' = cache_cycle + 1
    /\ UNCHANGED <<running, monitor_thread, callbacks, system_cpu_percent, lock, pc, cyc,
                   cpu_ok, replaced, stats, delivered, caller, cycles, last_call>>
    /\ UNCHANGED otherVars

\* ------------------------------------------------------------ AIAssistant
MaxUpdates == 2      \* update_process_data calls
MaxClock == 1441     \* the last second on the clock

\* what time.time() returns when the assistant is constructed: seconds since
\* 1970, far more than any window of the code
Epoch == 1200

\* self.config
HistorySize == 20
CpuHighThreshold == 50
MemoryHighThreshold == 500
\* anomaly_multiplier 2.5, as a fraction
AnomalyMultiplier == <<5, 2>>
MemoryLeakSlope == 10
SpikeMultiplier == 3

\* one dict of a batch; cpu in percent, memory in MB
Proc(name, pid, cpu, memory) == [name |-> name, pid |-> pid, cpu |-> cpu, memory |-> memory]

Chrome(cpu, memory) == Proc("chrome", 100, cpu, memory)
Python(cpu, memory) == Proc("python", 200, cpu, memory)

\* the batches the assistant is called with; the last holds one name
\* history_size + 1 times
Batches ==
    { <<>>,
      <<Chrome(10, 100)>>,
      <<Python(10, 100)>>,
      <<Chrome(10, 100), Python(10, 100)>>,
      <<Chrome(10, 100), Chrome(10, 100), Chrome(10, 100)>>,
      <<Chrome(90, 2500)>>,
      [i \in 1..(HistorySize + 1) |-> Chrome(10, 100)] }

\* Between two calls time passes up to the next multiple of a period; between
\* the time.time() of line 73 and those of line 108 a second passes, or none.
TickPeriods == {120}
CleanupDelays == {0, 1}

\* the value of the defaultdict's factory
EmptyHistory == [cpu |-> <<>>, memory |-> <<>>, timestamps |-> <<>>]

\* result: what the call returned, <<>> for None
NoAiCall == [op |-> "none", batch |-> <<>>, now |-> 0, cleanup |-> 0, result |-> <<>>]

\* What the calls observed were given.  log: per name, the samples of the
\* update_process_data calls in arrival order, each with the number of its
\* call; purged: per name, how many of them came before the name's history was
\* last deleted; batch: the batch of the last of these calls; prior: the length
\* of current_anomalies when detect_anomalies was last called
NoReceived == [log |-> <<>>, purged |-> <<>>, batch |-> <<>>, prior |-> 0]

\* no generate_insights call so far; ran: the call got past the cooldown test,
\* last_ran: the time of the call before it that did, 0 when none
NoInsightCall == [ran |-> FALSE, now |-> 0, cpu_percent |-> 0, ram_percent |-> 0,
                  total_processes |-> 0, result |-> <<>>, last_ran |-> 0]

AiInit ==
    /\ process_history = <<>>
    /\ baselines = <<>>
    /\ current_anomalies = <<>>
    /\ clock = Epoch
    /\ ai_call = NoAiCall
    /\ updates = 0
    /\ last_insights_time = 0
    /\ gi_call = NoInsightCall
    /\ received = NoReceived

\* seq[-n:]
LastN(seq, n) == IF Len(seq) > n THEN SubSeq(seq, Len(seq) - n + 1, Len(seq)) ELSE seq

\* self.process_history[name], read
HistoryOf(history, name) == IF name \in DOMAIN history THEN history[name] ELSE EmptyHistory

\* self.process_history[name] on the defaultdict: the name is a key from then on
Touch(history, name) ==
    [n \in DOMAIN history \cup {name} |-> HistoryOf(history, n)]

\* the body of the for loop of update_process_data with the size test off by
\* one
AppendSampleTrimmingLate(h, proc, now) ==
    LET h1 == [cpu |-> Append(h.cpu, proc.cpu),
               memory |-> Append(h.memory, proc.memory),
               timestamps |-> Append(h.timestamps, now)]
    IN IF Len(h1.cpu) > HistorySize + 1
       THEN [cpu |-> LastN(h1.cpu, HistorySize),
             memory |-> LastN(h1.memory, HistorySize),
             timestamps |-> LastN(h1.timestamps, HistorySize)]
       ELSE h1

\* the body of the for loop of update_process_data trimming the cpu list only
AppendSampleTrimmingCpuOnly(h, proc, now) ==
    LET h1 == [cpu |-> Append(h.cpu, proc.cpu),
               memory |-> Append(h.memory, proc.memory),
               timestamps |-> Append(h.timestamps, now)]
    IN IF Len(h1.cpu) > HistorySize
       THEN [h1 EXCEPT !.cpu = LastN(h1.cpu, HistorySize)]
       ELSE h1

\* the body of the for loop of update_process_data on one history
AppendSample(h, proc, now) ==
    LET h1 == [cpu |-> Append(h.cpu, proc.cpu),
               memory |-> Append(h.memory, proc.memory),
               timestamps |-> Append(h.timestamps, now)]
    IN IF Len(h1.cpu) > HistorySize
       THEN [cpu |-> LastN(h1.cpu, HistorySize),
             memory |-> LastN(h1.memory, HistorySize),
             timestamps |-> LastN(h1.timestamps, HistorySize)]
       ELSE h1

\* the for loop of update_process_data
RECURSIVE RecordBatch(_, _, _)
RecordBatch(batch, history, now) ==
    IF batch = <<>> THEN history
    ELSE LET proc == Head(batch)
             touched == Touch(history, proc.name)
         IN RecordBatch(Tail(batch),
                        [touched EXCEPT ![proc.name] = AppendSample(@, proc, now)],
                        now)

\* current_names of _cleanup_old_processes
BatchNames(batch) == { batch[i].name : i \in 1..Len(batch) }

\* the names _cleanup_old_processes deletes with `>=` for `>` in the age test
PurgedAtTwoMinutes(history, batch, now) ==
    { name \in DOMAIN history :
        /\ name \notin BatchNames(batch)
        /\ history[name].timestamps # <<>>
        /\ now - history[name].timestamps[Len(history[name].timestamps)] >= 120 }

\* the names _cleanup_old_processes deletes
Purged(history, batch, now) ==
    { name \in DOMAIN history :
        /\ name \notin BatchNames(batch)
        /\ history[name].timestamps # <<>>
        /\ now - history[name].timestamps[Len(history[name].timestamps)] > 120 }

\* a dict without some of its keys
Without(dict, names) == [n \in DOMAIN dict \ names |-> dict[n]]

\* _cleanup_old_processes without lines 110-111
CleanupBaselinesKeeping(base, purged) == base

\* lines 110-111 of _cleanup_old_processes, for the names it deletes
CleanupBaselines(base, purged) == Without(base, purged)

\* the samples of a batch, added to the log
RECURSIVE LogBatch(_, _, _, _)
LogBatch(batch, log, now, call) ==
    IF batch = <<>> THEN log
    ELSE LET proc == Head(batch)
             before == IF proc.name \in DOMAIN log THEN log[proc.name] ELSE <<>>
             entry == [cpu |-> proc.cpu, memory |-> proc.memory, timestamp |-> now,
                       call |-> call]
         IN LogBatch(Tail(batch),
                     [n \in DOMAIN log \cup {proc.name} |->
                        IF n = proc.name THEN Append(before, entry) ELSE log[n]],
                     now, call)

\* the names an update_process_data call deletes
PurgedBy(batch, delay) ==
    Purged(RecordBatch(batch, process_history, clock), batch, clock + delay)

\* received after an update_process_data call
Receive(batch, delay) ==
    LET log == LogBatch(batch, received.log, clock, updates + 1)
    IN [log |-> log,
        purged |-> [n \in DOMAIN log |->
                      IF n \in PurgedBy(batch, delay) THEN Len(log[n])
                      ELSE IF n \in DOMAIN received.purged THEN received.purged[n]
                      ELSE 0],
        batch |-> batch,
        prior |-> received.prior]

\* update_process_data(processes) on one batch, its cleanup delay seconds
\* after its first reading of the clock
UpdateProcessDataWith(batch, delay) ==
    /\ clock + delay <= MaxClock
    /\ LET recorded == RecordBatch(batch, process_history, clock)
           purged == Purged(recorded, batch, clock + delay)
       IN /\ process_history' = Without(recorded, purged)
          /\ baselines' = CleanupBaselines(baselines, purged)
          /\ clock' = clock + delay
          /\ ai_call' = [op |-> "update", batch |-> batch, now |-> clock,
                         cleanup |-> clock + delay, result |-> <<>>]
    /\ updates' = updates + 1

\* update_process_data(processes)
UpdateProcessData ==
    /\ updates < MaxUpdates
    /\ \E batch \in Batches, delay \in CleanupDelays : UpdateProcessDataWith(batch, delay)
    /\ UNCHANGED <<current_anomalies, received>>
    /\ UNCHANGED <<monVars, os_type, kill_call, cacheVars, insightVars, timing>>

\* time passes between two calls
Tick ==
    /\ \E period \in TickPeriods :
         /\ clock - (clock % period) + period <= MaxClock
         /\ clock' = clock - (clock % period) + period
    /\ UNCHANGED <<process_history, baselines, current_anomalies, ai_call, updates, received>>
    /\ UNCHANGED <<monVars, os_type, kill_call, cacheVars, insightVars, timing>>

RECURSIVE SumOf(_)
SumOf(seq) == IF seq = <<>> THEN 0 ELSE Head(seq) + SumOf(Tail(seq))

\* statistics.mean as the fraction <<sum, count>>
Mean(seq) == <<SumOf(seq), Len(seq)>>

\* x > mean * factor, for a mean <<sum, count>> and a factor <<num, den>>
ExceedsTimes(x, mean, factor) == x * mean[2] * factor[2] > mean[1] * factor[1]

\* The dict calculate_baselines stores for one history.  cpu_stdev and
\* memory_stdev are stored too and never read; they are left out.
Baseline(h) == [cpu |-> Mean(h.cpu), memory |-> Mean(h.memory)]

\* calculate_baselines with two samples being enough
CalculateBaselinesFromTwo(history, base) ==
    LET enough == { n \in DOMAIN history : Len(history[n].cpu) >= 2 }
    IN [n \in DOMAIN base \cup enough |->
          IF n \in enough THEN Baseline(history[n]) ELSE base[n]]

\* calculate_baselines(): statistics.mean and statistics.stdev do not raise on
\* three or more numbers
CalculateBaselines(history, base) ==
    LET enough == { n \in DOMAIN history : Len(history[n].cpu) >= 3 }
    IN [n \in DOMAIN base \cup enough |->
          IF n \in enough THEN Baseline(history[n]) ELSE base[n]]

\* slope of line 237, as the fraction <<rise, len(last_samples)>>
Slope(last_samples) ==
    <<last_samples[Len(last_samples)] - last_samples[1], Len(last_samples)>>

\* _detect_memory_leak(process_name) with three increases being enough
DetectMemoryLeakWithThreeIncreases(history, name) ==
    LET memory == HistoryOf(history, name).memory
        last_samples == LastN(memory, 5)
        increases == Cardinality({ i \in 1..(Len(last_samples) - 1) :
                                     last_samples[i + 1] > last_samples[i] })
    IN /\ Len(memory) >= 5
       /\ increases >= 3
       /\ Slope(last_samples)[1] > MemoryLeakSlope * Slope(last_samples)[2]

\* _detect_memory_leak(process_name)
DetectMemoryLeak(history, name) ==
    LET memory == HistoryOf(history, name).memory
        last_samples == LastN(memory, 5)
        increases == Cardinality({ i \in 1..(Len(last_samples) - 1) :
                                     last_samples[i + 1] > last_samples[i] })
    IN /\ Len(memory) >= 5
       /\ increases >= 4
       /\ Slope(last_samples)[1] > MemoryLeakSlope * Slope(last_samples)[2]

\* A ProcessAnomaly; a baseline_value is a fraction.  recommendation and icon
\* are display text made from these fields and are left out.
Anomaly(proc, type, severity, current, baseline) ==
    [process_name |-> proc.name, pid |-> proc.pid, anomaly_type |-> type,
     severity |-> severity, current_value |-> current, baseline_value |-> baseline]

\* Rule 1 of detect_anomalies with 80 percent being critical already
HighCpuCriticalAtEighty(proc, baseline) ==
    IF proc.cpu > CpuHighThreshold /\ ExceedsTimes(proc.cpu, baseline.cpu, AnomalyMultiplier)
    THEN << Anomaly(proc, "high_cpu", IF proc.cpu >= 80 THEN "critical" ELSE "high",
                    proc.cpu, baseline.cpu) >>
    ELSE <<>>

\* Rule 1 of detect_anomalies: CPU anormalmente alto
HighCpu(proc, baseline) ==
    IF proc.cpu > CpuHighThreshold /\ ExceedsTimes(proc.cpu, baseline.cpu, AnomalyMultiplier)
    THEN << Anomaly(proc, "high_cpu", IF proc.cpu > 80 THEN "critical" ELSE "high",
                    proc.cpu, baseline.cpu) >>
    ELSE <<>>

\* Rule 2 of detect_anomalies without the comparison with the baseline
HighMemoryIgnoringBaseline(proc, baseline) ==
    IF proc.memory > MemoryHighThreshold
    THEN << Anomaly(proc, "high_memory", IF proc.memory > 2000 THEN "critical" ELSE "high",
                    proc.memory, baseline.memory) >>
    ELSE <<>>

\* Rule 2 of detect_anomalies: memoria anormalmente alta
HighMemory(proc, baseline) ==
    IF proc.memory > MemoryHighThreshold
         /\ ExceedsTimes(proc.memory, baseline.memory, AnomalyMultiplier)
    THEN << Anomaly(proc, "high_memory", IF proc.memory > 2000 THEN "critical" ELSE "high",
                    proc.memory, baseline.memory) >>
    ELSE <<>>

\* Rule 3 of detect_anomalies: memory leak
MemoryLeak(proc, history, baseline) ==
    IF Len(HistoryOf(history, proc.name).memory) >= 5 /\ DetectMemoryLeak(history, proc.name)
    THEN << Anomaly(proc, "memory_leak", "high", proc.memory, baseline.memory) >>
    ELSE <<>>

\* Rule 4 of detect_anomalies comparing with the last sample of the history
SuddenSpikeFromLastSample(proc, h) ==
    IF Len(h.cpu) >= 2
         /\ proc.cpu > h.cpu[Len(h.cpu)] * SpikeMultiplier
         /\ proc.cpu > 30
    THEN << Anomaly(proc, "sudden_spike", "medium", proc.cpu, <<h.cpu[Len(h.cpu)], 1>>) >>
    ELSE <<>>

\* Rule 4 of detect_anomalies: spike repentino
SuddenSpike(proc, h) ==
    IF Len(h.cpu) >= 2
         /\ proc.cpu > h.cpu[Len(h.cpu) - 1] * SpikeMultiplier
         /\ proc.cpu > 30
    THEN << Anomaly(proc, "sudden_spike", "medium", proc.cpu, <<h.cpu[Len(h.cpu) - 1], 1>>) >>
    ELSE <<>>

\* the body of the for loop of detect_anomalies without the test of line 149, a
\* missing baseline being that of the history as it is
AnomaliesOfWithoutBaseline(proc, history, base) ==
    LET h == HistoryOf(history, proc.name)
        baseline == IF proc.name \in DOMAIN base THEN base[proc.name] ELSE Baseline(h)
    IN HighCpu(proc, baseline)
       \o HighMemory(proc, baseline)
       \o MemoryLeak(proc, history, baseline)
       \o SuddenSpike(proc, h)

\* the anomalies the body of the for loop of detect_anomalies appends for one
\* entry of the batch
AnomaliesOf(proc, history, base) ==
    IF proc.name \notin DOMAIN base THEN <<>>
    ELSE LET baseline == base[proc.name]
             h == HistoryOf(history, proc.name)
         IN HighCpu(proc, baseline)
            \o HighMemory(proc, baseline)
            \o MemoryLeak(proc, history, baseline)
            \o SuddenSpike(proc, h)

\* the for loop of detect_anomalies
RECURSIVE DetectFrom(_, _, _)
DetectFrom(batch, history, base) ==
    IF batch = <<>> THEN <<>>
    ELSE AnomaliesOf(Head(batch), history, base) \o DetectFrom(Tail(batch), history, base)

\* severity_order.get(x.severity, 999)
SeverityOrder(severity) ==
    IF severity = "critical" THEN 0
    ELSE IF severity = "high" THEN 1
    ELSE IF severity = "medium" THEN 2
    ELSE IF severity = "low" THEN 3
    ELSE 999

\* anomalies.sort(key=...) with a sort that reverses equal keys
RECURSIVE SortAnomaliesReversingTies(_)
SortAnomaliesReversingTies(anomalies) ==
    IF anomalies = <<>> THEN <<>>
    ELSE LET rest == SortAnomaliesReversingTies(SubSeq(anomalies, 1, Len(anomalies) - 1))
             x == anomalies[Len(anomalies)]
             k == Cardinality({ i \in 1..Len(rest) :
                                  SeverityOrder(rest[i].severity) < SeverityOrder(x.severity) })
         IN SubSeq(rest, 1, k) \o <<x>> \o SubSeq(rest, k + 1, Len(rest))

\* anomalies.sort(key=...): list.sort is stable
RECURSIVE SortAnomalies(_)
SortAnomalies(anomalies) ==
    IF anomalies = <<>> THEN <<>>
    ELSE LET rest == SortAnomalies(SubSeq(anomalies, 1, Len(anomalies) - 1))
             x == anomalies[Len(anomalies)]
             k == Cardinality({ i \in 1..Len(rest) :
                                  SeverityOrder(rest[i].severity) <= SeverityOrder(x.severity) })
         IN SubSeq(rest, 1, k) \o <<x>> \o SubSeq(rest, k + 1, Len(rest))

\* the names detect_anomalies would read, were the history read before the
\* test of line 149
RECURSIVE TouchAllNames(_, _, _)
TouchAllNames(batch, history, base) ==
    IF batch = <<>> THEN history
    ELSE TouchAllNames(Tail(batch), Touch(history, Head(batch).name), base)

\* the names whose history detect_anomalies reads through the defaultdict
RECURSIVE TouchAll(_, _, _)
TouchAll(batch, history, base) ==
    IF batch = <<>> THEN history
    ELSE TouchAll(Tail(batch),
                  IF Head(batch).name \in DOMAIN base THEN Touch(history, Head(batch).name)
                  ELSE history,
                  base)

\* self.current_anomalies after the call, were the list extended
CurrentAnomaliesExtended(earlier, anomalies) == earlier \o anomalies

\* self.current_anomalies = anomalies
CurrentAnomalies(earlier, anomalies) == anomalies

\* detect_anomalies(current_processes) on one batch
DetectAnomaliesWith(batch) ==
    /\ LET base == CalculateBaselines(process_history, baselines)
           anomalies == SortAnomalies(DetectFrom(batch, process_history, base))
       IN /\ baselines' = base
          /\ process_history' = TouchAll(batch, process_history, base)
          /\ current_anomalies' = CurrentAnomalies(current_anomalies, anomalies)
          /\ ai_call' = [op |-> "detect", batch |-> batch, now |-> clock,
                         cleanup |-> clock, result |-> anomalies]
    /\ UNCHANGED <<clock, updates>>

\* detect_anomalies(current_processes)
DetectAnomalies ==
    /\ \E batch \in Batches : DetectAnomaliesWith(batch)
    /\ UNCHANGED received
    /\ UNCHANGED <<monVars, os_type, kill_call, cacheVars, insightVars, timing>>

AiNext == UpdateProcessData \/ DetectAnomalies \/ Tick

\* ------------------------------------------- detect_anomalies on chosen samples
\* a batch that holds "chrome" once per sample
ChromeSamples(cpus, memories) == [i \in 1..Len(cpus) |-> Chrome(cpus[i], memories[i])]

Flat(n, x) == [i \in 1..n |-> x]

\* the batches whose samples make the history detect_anomalies reads
HistoryBatches ==
    { ChromeSamples(Flat(3, 10), Flat(3, 100)),
      ChromeSamples(Flat(3, 30), Flat(3, 300)),
      ChromeSamples(<<10, 12, 10>>, Flat(3, 100)),
      ChromeSamples(Flat(2, 10), Flat(2, 100)),
      ChromeSamples(Flat(4, 10), <<100, 120, 140, 160>>),
      ChromeSamples(Flat(5, 10), <<100, 110, 120, 130, 140>>),
      ChromeSamples(Flat(5, 10), <<100, 115, 130, 145, 160>>),
      ChromeSamples(Flat(5, 10), <<100, 110, 120, 135, 150>>),
      ChromeSamples(Flat(5, 10), <<100, 110, 120, 135, 151>>),
      ChromeSamples(Flat(5, 10), <<100, 130, 130, 160, 190>>),
      ChromeSamples(Flat(5, 10), <<100, 160, 150, 170, 190>>),
      ChromeSamples(Flat(6, 10), <<500, 100, 115, 130, 145, 160>>),
      ChromeSamples(Flat(6, 10), <<100, 90, 115, 130, 145, 160>>),
      ChromeSamples(Flat(3, 10), Flat(3, 100))
          \o <<Python(10, 100), Python(10, 100), Python(10, 100)>> }

\* the readings of one process detect_anomalies is called with
DetectCpus == {10, 25, 30, 31, 35, 37, 60, 75, 76, 80, 81, 90}
DetectMemories == {100, 400, 600, 750, 751, 2000, 2001}

\* the batches detect_anomalies is called with
DetectBatches ==
    { <<Chrome(cpu, memory)>> : cpu \in DetectCpus, memory \in DetectMemories }
    \cup { <<Chrome(60, 600), Python(90, 2001)>>,
           <<Python(90, 2001), Chrome(60, 600)>>,
           <<Chrome(35, 100), Python(60, 100)>>,
           <<Python(35, 100), Chrome(90, 600)>> }

\* update_process_data(processes), the first call
UpdateSamples ==
    /\ updates = 0
    /\ \E batch \in HistoryBatches : UpdateProcessDataWith(batch, 0)
    /\ UNCHANGED <<current_anomalies, received>>
    /\ UNCHANGED <<monVars, os_type, kill_call, cacheVars, insightVars, timing>>

\* detect_anomalies(current_processes) after it
DetectSamples ==
    /\ updates > 0
    /\ \E batch \in DetectBatches : DetectAnomaliesWith(batch)
    /\ received' = [received EXCEPT !.prior = Len(current_anomalies)]
    /\ UNCHANGED <<monVars, os_type, kill_call, cacheVars, insightVars, timing>>

DetectNext == UpdateSamples \/ DetectSamples

\* ------------------------------- update_process_data, then detect_anomalies
MaxReceived == 3     \* update_process_data calls

\* the batches of these calls: one process, another, history_size + 1 samples
\* of one name, three processes of one name
ReceivedBatches ==
    { <<Chrome(10, 100)>>,
      <<Python(10, 100)>>,
      [i \in 1..(HistorySize + 1) |-> Chrome(i, 100 + i)],
      <<Proc("chrome", 101, 5, 100), Proc("chrome", 102, 5, 100),
        Proc("chrome", 103, 50, 100)>> }

\* update_process_data(processes)
UpdateReceived ==
    /\ updates < MaxReceived
    /\ \E batch \in ReceivedBatches, delay \in CleanupDelays :
         /\ UpdateProcessDataWith(batch, delay)
         /\ received' = Receive(batch, delay)
    /\ UNCHANGED current_anomalies
    /\ UNCHANGED <<monVars, os_type, kill_call, cacheVars, insightVars, timing>>

\* detect_anomalies(current_processes) right after it, with the same batch
DetectReceived ==
    /\ ai_call.op = "update"
    /\ DetectAnomaliesWith(ai_call.batch)
    /\ UNCHANGED received
    /\ UNCHANGED <<monVars, os_type, kill_call, cacheVars, insightVars, timing>>

ReceivedNext == UpdateReceived \/ DetectReceived \/ Tick

\* ------------------------------------------------------- generate_insights
InsightsCooldown == 30

\* A SystemInsight.  description and icon are display text; title is written
\* without its accents and its emoji.
SystemInsight(title, severity) == [title |-> title, severity |-> severity]

\* _predict_resource_trend with `or` for `and`
PredictResourceTrendOnEither(current_cpu, current_ram) ==
    IF current_cpu > 70 \/ current_ram > 70
    THEN << SystemInsight("Prediccion: Saturacion inminente", "warning") >>
    ELSE <<>>

\* _predict_resource_trend(current_cpu, current_ram); <<>> for None
PredictResourceTrend(current_cpu, current_ram) ==
    IF current_cpu > 70 /\ current_ram > 70
    THEN << SystemInsight("Prediccion: Saturacion inminente", "warning") >>
    ELSE <<>>

\* the list generate_insights builds past the cooldown test
Insights(cpu_percent, ram_percent, total_processes) ==
    (IF cpu_percent > 80 THEN << SystemInsight("CPU critica", "critical") >>
     ELSE IF cpu_percent > 60 THEN << SystemInsight("CPU elevada", "warning") >>
     ELSE <<>>)
    \o (IF ram_percent > 85 THEN << SystemInsight("RAM critica", "critical") >>
        ELSE IF ram_percent > 70 THEN << SystemInsight("RAM elevada", "warning") >>
        ELSE <<>>)
    \o PredictResourceTrend(cpu_percent, ram_percent)
    \o (IF total_processes > 200 THEN << SystemInsight("Muchos procesos activos", "info") >>
        ELSE <<>>)

\* the test of line 256 with `<=` for `<`
InCooldownInclusive(current_time, last) == current_time - last <= InsightsCooldown

\* the test of line 256
InCooldown(current_time, last) == current_time - last < InsightsCooldown

\* self.last_insights_time after a call, were line 307 under `if insights:`
LastInsightsTimeOnFindings(blocked, current_time, last, insights) ==
    IF blocked \/ insights = <<>> THEN last ELSE current_time

\* self.last_insights_time after a call: line 307 is not reached from line 257
LastInsightsTime(blocked, current_time, last, insights) ==
    IF blocked THEN last ELSE current_time

\* what generate_insights is called with
CpuPercents == {60, 61, 70, 71, 80, 81, 85}
RamPercents == {70, 71, 85, 86, 90}
ProcessCounts == {200, 201}

\* the moments a call is made at, in seconds after Epoch
InsightMoments == {0, 15, 29, 30, 45, 59, 60}

\* generate_insights(cpu_percent, ram_percent, total_processes)
GenerateInsights ==
    /\ \E cpu_percent \in CpuPercents, ram_percent \in RamPercents,
          total_processes \in ProcessCounts :
         LET current_time == clock
             blocked == InCooldown(current_time, last_insights_time)
             insights == Insights(cpu_percent, ram_percent, total_processes)
         IN /\ last_insights_time' =
                  LastInsightsTime(blocked, current_time, last_insights_time, insights)
            /\ gi_call' = [ran |-> ~blocked, now |-> current_time,
                           cpu_percent |-> cpu_percent, ram_percent |-> ram_percent,
                           total_processes |-> total_processes,
                           result |-> IF blocked THEN <<>> ELSE insights,
                           last_ran |-> IF gi_call.ran THEN gi_call.now ELSE gi_call.last_ran]
    /\ UNCHANGED <<process_history, baselines, current_anomalies, clock, ai_call, updates,
                   received>>
    /\ UNCHANGED <<monVars, os_type, kill_call, cacheVars, timing>>

\* time passes up to the next call
Wait ==
    /\ \E moment \in InsightMoments :
         /\ Epoch + moment > clock
         /\ clock' = Epoch + moment
    /\ UNCHANGED <<process_history, baselines, current_anomalies, ai_call, updates, received>>
    /\ UNCHANGED <<monVars, os_type, kill_call, cacheVars, insightVars, timing>>

InsightNext == GenerateInsights \/ Wait

\* ------------------------------------------------- the cadence of _monitor_loop
MaxLoopTime == 60    \* the last second a cycle starts at

\* update_interval, the default
UpdateInterval == 10

\* seconds from start_time to the end of a cycle's body, or to its exception
Elapsed == {0, 3, 10, 12}

\* no cycle so far; next: the first cycle starts at second 0
NoCycle == [start_time |-> 0, elapsed |-> 0, failed |-> FALSE, next |-> 0]

Max(a, b) == IF a > b THEN a ELSE b

\* the argument of time.sleep at the end of a cycle
SleepTime(elapsed, failed) ==
    IF failed THEN UpdateInterval ELSE Max(0, UpdateInterval - elapsed)

\* one turn of the while loop of _monitor_loop, from start_time to the end of
\* its sleep
MonitorCycle ==
    /\ \E elapsed \in Elapsed, failed \in BOOLEAN :
         LET start_time == timing.next
             next == start_time + elapsed + SleepTime(elapsed, failed)
         IN /\ next <= MaxLoopTime
            /\ timing' = [start_time |-> start_time, elapsed |-> elapsed, failed |-> failed,
                          next |-> next]
    /\ UNCHANGED <<monVars, os_type, kill_call, cacheVars, aiVars>>

TimingNext == MonitorCycle

\* ------------------------------------------------------------ kill_process
OsTypes == {"Windows", "Linux", "Darwin", "FreeBSD"}

\* _get_critical_processes: the Windows set
WindowsCritical ==
    { <<115,121,115,116,101,109>>,   \* 'system'
      <<99,115,114,115,115,46,101,120,101>>,   \* 'csrss.exe'
      <<119,105,110,105,110,105,116,46,101,120,101>>,   \* 'wininit.exe'
      <<115,101,114,118,105,99,101,115,46,101,120,101>>,   \* 'services.exe'
      <<108,115,97,115,115,46,101,120,101>>,   \* 'lsass.exe'
      <<115,109,115,115,46,101,120,101>>,   \* 'smss.exe'
      <<119,105,110,108,111,103,111,110,46,101,120,101>>,   \* 'winlogon.exe'
      <<100,119,109,46,101,120,101>>,   \* 'dwm.exe'
      <<115,118,99,104,111,115,116,46,101,120,101>>,   \* 'svchost.exe'
      <<115,121,115,116,101,109,100>>,   \* 'systemd'
      <<105,110,105,116>> }   \* 'init'

\* _get_critical_processes: the Linux set
LinuxCritical ==
    { <<115,121,115,116,101,109,100>>,   \* 'systemd'
      <<105,110,105,116>>,   \* 'init'
      <<107,116,104,114,101,97,100,100>>,   \* 'kthreadd'
      <<115,121,115,116,101,109,100,45,106,111,117,114,110,97,108,100>>,   \* 'systemd-journald'
      <<115,121,115,116,101,109,100,45,117,100,101,118,100>>,   \* 'systemd-udevd'
      <<100,98,117,115,45,100,97,101,109,111,110>>,   \* 'dbus-daemon'
      <<78,101,116,119,111,114,107,77,97,110,97,103,101,114>>,   \* 'NetworkManager'
      <<97,99,99,111,117,110,116,115,45,100,97,101,109,111,110>>,   \* 'accounts-daemon'
      <<103,100,109>>,   \* 'gdm'
      <<88,111,114,103>>,   \* 'Xorg'
      <<115,110,97,112,100>> }   \* 'snapd'

\* _get_critical_processes: the set of every other system (macOS)
DarwinCritical ==
    { <<107,101,114,110,101,108,95,116,97,115,107>>,   \* 'kernel_task'
      <<108,97,117,110,99,104,100>>,   \* 'launchd'
      <<87,105,110,100,111,119,83,101,114,118,101,114>>,   \* 'WindowServer'
      <<108,111,103,105,110,119,105,110,100,111,119>>,   \* 'loginwindow'
      <<115,121,115,116,101,109,115,116,97,116,115>>,   \* 'systemstats'
      <<109,100,115>>,   \* 'mds'
      <<109,100,115,95,115,116,111,114,101,115>> }   \* 'mds_stores'

\* self._critical_processes
CriticalProcesses(os) ==
    IF os = "Windows" THEN WindowsCritical
    ELSE IF os = "Linux" THEN LinuxCritical
    ELSE DarwinCritical

\* is_critical_process(name)
IsCriticalProcess(os, name) == Lower(name) \in CriticalProcesses(os)

\* the names a process can have: every member of every set, and
\* 'python', 'System', 'SYSTEMD'
ProcessNames ==
    WindowsCritical \cup LinuxCritical \cup DarwinCritical
      \cup { <<112,121,116,104,111,110>>, <<83,121,115,116,101,109>>,
             <<83,89,83,84,69,77,68>> }

KillPids == {1, 4242}

\* what an OS call can raise
OsFaults == {"NoSuchProcess", "AccessDenied", "OSError"}

\* what proc.name() can raise
NameFaults == OsFaults \cup {"ZombieProcess"}

NoKill == [pid |-> 0, force |-> FALSE, name |-> <<>>, named |-> FALSE, calls |-> <<>>,
           wait |-> "none", raised |-> <<>>,
           result |-> [success |-> FALSE, key |-> "", text |-> ""]]

\* the dict kill_process returns: 'success' and one more key
Result(success, key, text) == [success |-> success, key |-> key, text |-> text]

\* the except clauses of kill_process for an exception raised in the try body
\* other than TimeoutExpired (ZombieProcess is a subclass of NoSuchProcess)
KillExcept(fault, pid) ==
    IF fault \in {"NoSuchProcess", "ZombieProcess"}
    THEN Result(FALSE, "error", "Process {pid} does not exist")
    ELSE IF fault = "AccessDenied"
    THEN Result(FALSE, "error", "Access denied for PID {pid}. Try running as admin/root")
    ELSE Result(FALSE, "error", "str(e)")

\* the bare except around the proc.kill() of the TimeoutExpired clause
EscalationExcept(fault) == Result(FALSE, "error", "Failed to kill process")

\* One finished call: its arguments, the name read (named: proc.name()
\* returned), the signal calls made on the process in order, how proc.wait
\* ended ("none": not called, "exited": it returned), the OS step that raised
\* and what it raised (<<>>: none did; TimeoutExpired is recorded in wait), and
\* the dict returned.
KillCall(pid, force, name, named, calls, wait, raised, result) ==
    [pid |-> pid, force |-> force, name |-> name, named |-> named, calls |-> calls,
     wait |-> wait, raised |-> raised, result |-> result]

\* the `if force:` branch with a kill that raises taken for a kill
KillForceSwallowingFaults(pid, name) ==
    { KillCall(pid, TRUE, name, TRUE, <<"kill">>, "none", <<>>,
               Result(TRUE, "message", "Process {name} (PID: {pid}) terminated")) }
      \cup { KillCall(pid, TRUE, name, TRUE, <<"kill">>, "none", <<"kill", f>>,
                      Result(TRUE, "message", "Process {name} (PID: {pid}) terminated")) :
               f \in OsFaults }

\* the `if force:` branch: proc.kill() and the return after it
KillForce(pid, name) ==
    { KillCall(pid, TRUE, name, TRUE, <<"kill">>, "none", <<>>,
               Result(TRUE, "message", "Process {name} (PID: {pid}) terminated")) }
      \cup { KillCall(pid, TRUE, name, TRUE, <<"kill">>, "none", <<"kill", f>>,
                      KillExcept(f, pid)) : f \in OsFaults }

\* the `except psutil.TimeoutExpired:` clause
KillEscalate(pid, name) ==
    { KillCall(pid, FALSE, name, TRUE, <<"terminate", "wait", "kill">>, "TimeoutExpired", <<>>,
               Result(TRUE, "message", "Process {pid} force killed")) }
      \cup { KillCall(pid, FALSE, name, TRUE, <<"terminate", "wait", "kill">>, "TimeoutExpired",
                      <<"kill", f>>, EscalationExcept(f)) : f \in OsFaults }

\* the else branch without the TimeoutExpired clause: the timeout reaches
\* `except Exception`
KillGracefulNoEscalation(pid, name) ==
    { KillCall(pid, FALSE, name, TRUE, <<"terminate">>, "none", <<"terminate", f>>,
               KillExcept(f, pid)) : f \in OsFaults }
      \cup { KillCall(pid, FALSE, name, TRUE, <<"terminate", "wait">>, "exited", <<>>,
                      Result(TRUE, "message", "Process {name} (PID: {pid}) terminated")) }
      \cup { KillCall(pid, FALSE, name, TRUE, <<"terminate", "wait">>, f, <<"wait", f>>,
                      KillExcept(f, pid)) : f \in OsFaults \cup {"TimeoutExpired"} }

\* the else branch: proc.terminate(), proc.wait(timeout=3) and what follows
KillGraceful(pid, name) ==
    { KillCall(pid, FALSE, name, TRUE, <<"terminate">>, "none", <<"terminate", f>>,
               KillExcept(f, pid)) : f \in OsFaults }
      \cup { KillCall(pid, FALSE, name, TRUE, <<"terminate", "wait">>, "exited", <<>>,
                      Result(TRUE, "message", "Process {name} (PID: {pid}) terminated")) }
      \cup { KillCall(pid, FALSE, name, TRUE, <<"terminate", "wait">>, f, <<"wait", f>>,
                      KillExcept(f, pid)) : f \in OsFaults }
      \cup KillEscalate(pid, name)

\* kill_process with `if force:` always taking the else branch
KillNamedIgnoringForce(os, pid, force, name) ==
    IF IsCriticalProcess(os, name)
    THEN { KillCall(pid, force, name, TRUE, <<>>, "none", <<>>,
                    Result(FALSE, "error", "Cannot kill critical system process: {name}")) }
    ELSE { [c EXCEPT !.force = force] : c \in KillGraceful(pid, name) }

\* kill_process(pid, force) from `if self.is_critical_process(name)` on, for a
\* process whose name has been read: every way the OS can answer
KillNamed(os, pid, force, name) ==
    IF IsCriticalProcess(os, name)
    THEN { KillCall(pid, force, name, TRUE, <<>>, "none", <<>>,
                    Result(FALSE, "error", "Cannot kill critical system process: {name}")) }
    ELSE IF force
    THEN KillForce(pid, name)
    ELSE KillGraceful(pid, name)

\* kill_process(pid, force): every call record it can end with
KillOutcomes(os, pid, force) ==
    { KillCall(pid, force, <<>>, FALSE, <<>>, "none", <<"Process", f>>, KillExcept(f, pid)) :
        f \in OsFaults }
      \cup { KillCall(pid, force, <<>>, FALSE, <<>>, "none", <<"name", f>>, KillExcept(f, pid)) :
               f \in NameFaults }
      \cup UNION { KillNamed(os, pid, force, name) : name \in ProcessNames }

\* kill_process(pid, force) is called and returns
KillProcess ==
    /\ kill_call = NoKill
    /\ \E pid \in KillPids, force \in BOOLEAN :
         \E c \in KillOutcomes(os_type, pid, force) : kill_call' = c
    /\ UNCHANGED <<os_type, monVars, cacheVars, aiVars, timing>>

\* the caller has taken the result
KillReturned ==
    /\ kill_call # NoKill
    /\ kill_call' = NoKill
    /\ UNCHANGED <<os_type, monVars, cacheVars, aiVars, timing>>

KillNext == KillProcess \/ KillReturned

\* the monitor as constructed, on any system
KillInit ==
    /\ MonitorInit
    /\ os_type \in OsTypes
    /\ kill_call = NoKill
    /\ sample = NoSample
    /\ gp_call = NoGet
    /\ AiInit
    /\ timing = NoCycle

KillSpec == KillInit /\ [][KillNext]_vars

\* ------------------------------------------------------- the monitor loop
\* the monitor as constructed; nothing below reads os_type
Init ==
    /\ MonitorInit
    /\ os_type = "Linux"
    /\ kill_call = NoKill
    /\ sample = NoSample
    /\ gp_call = NoGet
    /\ AiInit
    /\ timing = NoCycle

\* sampling passes and get_processes calls, one after the other
CacheNext == Collect \/ CollectReturned \/ GetProcessesCall \/ GetProcessesReturned

CacheSpec == Init /\ [][CacheNext]_vars

\* get_processes in two steps, with the loop's cache replacements in between
CopyNext == GetProcessesCopy \/ GetProcessesFilterSort \/ GetProcessesTaken \/ ReplaceCache

CopySpec == Init /\ [][CopyNext]_vars

\* the assistant on its own
AiSpec == Init /\ [][AiNext]_vars

\* one update_process_data call, then detect_anomalies calls
DetectSpec == Init /\ [][DetectNext]_vars

\* update_process_data calls, each followed or not by detect_anomalies with the
\* same batch, as time passes
ReceivedSpec == Init /\ [][ReceivedNext]_vars

\* generate_insights calls as time passes
InsightSpec == Init /\ [][InsightNext]_vars

\* the cycles of the monitor loop on its clock
TimingSpec == Init /\ [][TimingNext]_vars

\* start() without its `if self.running: return`
StartUnguarded ==
    /\ caller = "idle"
    /\ FreeSlots # {}
    /\ last_call' = <<"start", running>>
    /\ LET t == CHOOSE s \in FreeSlots : \A o \in FreeSlots : s <= o
       IN /\ running' = TRUE
          /\ monitor_thread' = t
          /\ pc' = [pc EXCEPT ![t] = "first_cpu"]
    /\ UNCHANGED <<callbacks, process_cache, system_cpu_percent, lock, cyc, cpu_ok, replaced,
                   stats, delivered, caller, cycles, cache_cycle>>
    /\ UNCHANGED otherVars

\* start()
Start ==
    /\ caller = "idle"
    /\ running \/ FreeSlots # {}
    /\ last_call' = <<"start", running>>
    /\ IF running
       THEN UNCHANGED <<running, monitor_thread, pc>>
       ELSE LET t == CHOOSE s \in FreeSlots : \A o \in FreeSlots : s <= o
            IN /\ running' = TRUE
               /\ monitor_thread' = t
               /\ pc' = [pc EXCEPT ![t] = "first_cpu"]
    /\ UNCHANGED <<callbacks, process_cache, system_cpu_percent, lock, cyc, cpu_ok, replaced,
                   stats, delivered, caller, cycles, cache_cycle>>
    /\ UNCHANGED otherVars

\* stop(), up to the join
Stop ==
    /\ caller = "idle"
    /\ last_call' = <<"stop", running>>
    /\ running' = FALSE
    /\ caller' = IF monitor_thread # 0 THEN "join" ELSE "idle"
    /\ UNCHANGED <<monitor_thread, callbacks, process_cache, system_cpu_percent, lock,
                   pc, cyc, cpu_ok, replaced, stats, delivered, cycles, cache_cycle>>
    /\ UNCHANGED otherVars

\* join(timeout=2) returns because the thread has finished
JoinExited ==
    /\ caller = "join"
    /\ pc[monitor_thread] = "done"
    /\ caller' = "idle"
    /\ UNCHANGED <<running, monitor_thread, callbacks, process_cache, system_cpu_percent,
                   lock, pc, cyc, cpu_ok, replaced, stats, delivered, cycles, cache_cycle, last_call>>
    /\ UNCHANGED otherVars

\* join(timeout=2) returns on its timeout, the thread still alive
JoinTimeout ==
    /\ caller = "join"
    /\ pc[monitor_thread] # "done"
    /\ caller' = "idle"
    /\ UNCHANGED <<running, monitor_thread, callbacks, process_cache, system_cpu_percent,
                   lock, pc, cyc, cpu_ok, replaced, stats, delivered, cycles, cache_cycle, last_call>>
    /\ UNCHANGED otherVars

\* register_callback(callback): the n-th registration is the callable n
RegisterCallback ==
    /\ caller = "idle"
    /\ Len(callbacks) < MaxCallbacks
    /\ callbacks' = Append(callbacks, Len(callbacks) + 1)
    /\ UNCHANGED <<running, monitor_thread, process_cache, system_cpu_percent, lock, pc,
                   cyc, cpu_ok, replaced, stats, delivered, caller, cycles, cache_cycle, last_call>>
    /\ UNCHANGED otherVars

\* _monitor_loop line 234: the first cpu_percent measurement, outside the try
LoopFirstCpu(t) ==
    /\ pc[t] = "first_cpu"
    /\ \E raised \in BOOLEAN :
         pc' = [pc EXCEPT ![t] = IF raised THEN "done" ELSE "while"]
    /\ UNCHANGED <<running, monitor_thread, callbacks, process_cache, system_cpu_percent,
                   lock, cyc, cpu_ok, replaced, stats, delivered, caller, cycles, cache_cycle,
                   last_call>>
    /\ UNCHANGED otherVars

\* while self.running: true, a cycle starts (start_time = time.time())
LoopWhileEnter(t) ==
    /\ pc[t] = "while"
    /\ running
    /\ cycles < MaxCycles
    /\ pc' = [pc EXCEPT ![t] = "collect"]
    /\ cyc' = [cyc EXCEPT ![t] = cycles + 1]
    /\ cycles' = cycles + 1
    /\ UNCHANGED <<running, monitor_thread, callbacks, process_cache, system_cpu_percent,
                   lock, cpu_ok, replaced, stats, delivered, caller, cache_cycle, last_call>>
    /\ UNCHANGED otherVars

\* while self.running: false, _monitor_loop returns and the thread ends
LoopWhileExit(t) ==
    /\ pc[t] = "while"
    /\ ~running
    /\ pc' = [pc EXCEPT ![t] = "done"]
    /\ UNCHANGED <<running, monitor_thread, callbacks, process_cache, system_cpu_percent,
                   lock, cyc, cpu_ok, replaced, stats, delivered, caller, cycles, cache_cycle,
                   last_call>>
    /\ UNCHANGED otherVars

\* self._collect_processes_optimized() returns: the cache is replaced
LoopCollectOk(t) ==
    /\ pc[t] = "collect"
    /\ process_cache' = CollectProcessesOptimized(OsEnumeration(cyc[t]))
    /\ cache_cycle' = cyc[t]
    /\ replaced' = [replaced EXCEPT ![t] = TRUE]
    /\ pc' = [pc EXCEPT ![t] = "cpu"]
    /\ UNCHANGED <<running, monitor_thread, callbacks, system_cpu_percent, lock, cyc,
                   cpu_ok, stats, delivered, caller, cycles, last_call>>
    /\ UNCHANGED otherVars

\* The work of a cycle is over and the thread goes to sleep at `to`: the cycle's
\* locals (stats, the position in self.callbacks) are dead from here on.
EndCycle(t, to) ==
    /\ pc' = [pc EXCEPT ![t] = to]
    /\ cyc' = [cyc EXCEPT ![t] = 0]
    /\ cpu_ok' = [cpu_ok EXCEPT ![t] = FALSE]
    /\ replaced' = [replaced EXCEPT ![t] = FALSE]
    /\ stats' = [stats EXCEPT ![t] = NoStats]
    /\ delivered' = [delivered EXCEPT ![t] = <<>>]
    /\ UNCHANGED <<running, monitor_thread, callbacks, process_cache, system_cpu_percent,
                   lock, caller, cycles, cache_cycle, last_call>>
    /\ UNCHANGED otherVars

\* except Exception of the cycle body: print, then time.sleep(self.update_interval)
LoopExcept(t) == EndCycle(t, "errsleep")

\* self._collect_processes_optimized() raises something it does not catch
LoopCollectRaise(t) ==
    /\ pc[t] = "collect"
    /\ LoopExcept(t)

\* self._update_cpu_percentages(): it catches its own exception
LoopCpu(t) ==
    /\ pc[t] = "cpu"
    /\ \E raised \in BOOLEAN :
         IF raised
         THEN UNCHANGED <<system_cpu_percent, cpu_ok>>
         ELSE /\ system_cpu_percent' = cyc[t]
              /\ cpu_ok' = [cpu_ok EXCEPT ![t] = TRUE]
    /\ pc' = [pc EXCEPT ![t] = "ram"]
    /\ UNCHANGED <<running, monitor_thread, callbacks, process_cache, lock, cyc, replaced,
                   stats, delivered, caller, cycles, cache_cycle, last_call>>
    /\ UNCHANGED otherVars

\* ram = psutil.virtual_memory(); self._system_ram_percent = ram.percent
LoopRamOk(t) ==
    /\ pc[t] = "ram"
    /\ pc' = [pc EXCEPT ![t] = "stats"]
    /\ UNCHANGED <<running, monitor_thread, callbacks, process_cache, system_cpu_percent,
                   lock, cyc, cpu_ok, replaced, stats, delivered, caller, cycles, cache_cycle,
                   last_call>>
    /\ UNCHANGED otherVars

\* psutil.virtual_memory() raises
LoopRamRaise(t) ==
    /\ pc[t] = "ram"
    /\ LoopExcept(t)

\* get_current_stats(): with self._lock, virtual_memory(), read _system_cpu_percent
GsAcquire(c) ==
    /\ pc[c] = IF c = Reader THEN "idle" ELSE "stats"
    /\ lock = 0
    /\ lock' = c
    /\ stats' = [stats EXCEPT ![c] = [NoStats EXCEPT !.cpu_percent = system_cpu_percent]]
    /\ pc' = [pc EXCEPT ![c] = "gs_count"]
    /\ UNCHANGED <<running, monitor_thread, callbacks, process_cache, system_cpu_percent,
                   cyc, cpu_ok, replaced, delivered, caller, cycles, cache_cycle, last_call>>
    /\ UNCHANGED otherVars

\* get_current_stats() in the loop: virtual_memory() raises, the with releases the lock
LoopStatsRaise(t) ==
    /\ pc[t] = "stats"
    /\ lock = 0
    /\ LoopExcept(t)

\* 'process_count': len(self._process_cache)
GsCount(c) ==
    /\ pc[c] = "gs_count"
    /\ stats' = [stats EXCEPT ![c].process_count = Len(process_cache)]
    /\ pc' = [pc EXCEPT ![c] = "gs_list"]
    /\ UNCHANGED <<running, monitor_thread, callbacks, process_cache, system_cpu_percent,
                   lock, cyc, cpu_ok, replaced, delivered, caller, cycles, cache_cycle, last_call>>
    /\ UNCHANGED otherVars

\* 'processes': list(self._process_cache.values()); the lock is released; return
GsList(c) ==
    /\ pc[c] = "gs_list"
    /\ stats' = [stats EXCEPT ![c].processes = process_cache, ![c].list_cycle = cache_cycle]
    /\ lock' = 0
    /\ pc' = [pc EXCEPT ![c] = IF c = Reader THEN "idle" ELSE "notify"]
    /\ UNCHANGED <<running, monitor_thread, callbacks, process_cache, system_cpu_percent,
                   cyc, cpu_ok, replaced, delivered, caller, cycles, cache_cycle, last_call>>
    /\ UNCHANGED otherVars

\* the for loop without the inner try: a raising callback ends the cycle in the outer except
LoopNotifyUnisolated(t) ==
    /\ pc[t] = "notify"
    /\ Len(delivered[t]) < Len(callbacks)
    /\ \E raised \in BOOLEAN :
         /\ delivered' = [delivered EXCEPT ![t] =
                             Append(@, [cb |-> callbacks[Len(@) + 1], raised |-> raised])]
         /\ pc' = [pc EXCEPT ![t] = IF raised THEN "errsleep" ELSE "notify"]
    /\ UNCHANGED <<running, monitor_thread, callbacks, process_cache, system_cpu_percent,
                   lock, cyc, cpu_ok, replaced, stats, caller, cycles, cache_cycle, last_call>>
    /\ UNCHANGED otherVars

\* the for loop calling only every other callback
LoopNotifySkipping(t) ==
    /\ pc[t] = "notify"
    /\ Len(delivered[t]) < Len(callbacks)
    /\ \E raised \in BOOLEAN :
         delivered' = [delivered EXCEPT ![t] =
                          Append(@, [cb |-> callbacks[Len(callbacks)], raised |-> raised])]
    /\ UNCHANGED <<running, monitor_thread, callbacks, process_cache, system_cpu_percent,
                   lock, pc, cyc, cpu_ok, replaced, stats, caller, cycles, cache_cycle, last_call>>
    /\ UNCHANGED otherVars

\* for callback in self.callbacks: try: callback(stats) except Exception: print
LoopNotify(t) ==
    /\ pc[t] = "notify"
    /\ Len(delivered[t]) < Len(callbacks)
    /\ \E raised \in BOOLEAN :
         delivered' = [delivered EXCEPT ![t] =
                          Append(@, [cb |-> callbacks[Len(@) + 1], raised |-> raised])]
    /\ UNCHANGED <<running, monitor_thread, callbacks, process_cache, system_cpu_percent,
                   lock, pc, cyc, cpu_ok, replaced, stats, caller, cycles, cache_cycle, last_call>>
    /\ UNCHANGED otherVars

\* the for loop is exhausted: elapsed, sleep_time, time.sleep(sleep_time) begins
LoopNotifyDone(t) ==
    /\ pc[t] = "notify"
    /\ Len(delivered[t]) >= Len(callbacks)
    /\ EndCycle(t, "sleep")

\* time.sleep(sleep_time) / time.sleep(self.update_interval) returns: back to the while test
LoopWake(t) ==
    /\ pc' = [pc EXCEPT ![t] = "while"]
    /\ UNCHANGED <<running, monitor_thread, callbacks, process_cache, system_cpu_percent,
                   lock, cyc, cpu_ok, replaced, stats, delivered, caller, cycles, cache_cycle,
                   last_call>>
    /\ UNCHANGED otherVars

\* a sleep that tests self.running itself and returns from _monitor_loop
LoopSleepBreaks(t) ==
    /\ pc[t] = "sleep"
    /\ pc' = [pc EXCEPT ![t] = IF running THEN "while" ELSE "done"]
    /\ UNCHANGED <<running, monitor_thread, callbacks, process_cache, system_cpu_percent,
                   lock, cyc, cpu_ok, replaced, stats, delivered, caller, cycles, cache_cycle,
                   last_call>>
    /\ UNCHANGED otherVars

\* time.sleep(sleep_time) returns
LoopSleep(t) ==
    /\ pc[t] = "sleep"
    /\ LoopWake(t)

\* the except branch re-raising: the thread dies
LoopErrSleepDies(t) ==
    /\ pc[t] = "errsleep"
    /\ pc' = [pc EXCEPT ![t] = "done"]
    /\ UNCHANGED <<running, monitor_thread, callbacks, process_cache, system_cpu_percent,
                   lock, cyc, cpu_ok, replaced, stats, delivered, caller, cycles, cache_cycle,
                   last_call>>
    /\ UNCHANGED otherVars

\* time.sleep(self.update_interval) of the except branch returns
LoopErrSleep(t) ==
    /\ pc[t] = "errsleep"
    /\ LoopWake(t)

\* one step of the monitor thread t
LoopStep(t) ==
    \/ LoopFirstCpu(t)
    \/ LoopWhileEnter(t)
    \/ LoopWhileExit(t)
    \/ LoopCollectOk(t)
    \/ LoopCollectRaise(t)
    \/ LoopCpu(t)
    \/ LoopRamOk(t)
    \/ LoopRamRaise(t)
    \/ LoopStatsRaise(t)
    \/ LoopNotify(t)
    \/ LoopNotifyDone(t)
    \/ LoopSleep(t)
    \/ LoopErrSleep(t)

\* one step of get_current_stats in context c
GetCurrentStatsStep(c) ==
    \/ GsAcquire(c)
    \/ GsCount(c)
    \/ GsList(c)

\* the controlling context and the monitor threads
LoopNext ==
    \/ Start
    \/ Stop
    \/ JoinExited
    \/ JoinTimeout
    \/ RegisterCallback
    \/ \E t \in Threads : LoopStep(t)
    \/ \E t \in Threads : GetCurrentStatsStep(t)

\* the same, and a reader context calling get_current_stats
Next ==
    \/ LoopNext
    \/ GetCurrentStatsStep(Reader)

Spec == Init /\ [][Next]_vars

\* The monitor without the reader context.  The reader writes nothing but its
\* own result and the lock, and holding the lock only delays a thread.
LoopSpec == Init /\ [][LoopNext]_vars

\* Scheduling: a thread that can take a step eventually takes one (time.sleep
\* returns, the psutil calls and the callbacks return, the interpreter runs
\* every thread, the lock is handed to a thread that keeps waiting for it).
Fairness == \A t \in Threads : WF_vars(LoopStep(t) \/ GetCurrentStatsStep(t))

FairSpec == LoopSpec /\ Fairness

\* ------------------------------------------------------------- claims
InCycle(t) == pc[t] \in {"collect", "cpu", "ram", "stats", "gs_count", "gs_list", "notify"}

Spawned(t) == pc[t] \in {"unborn", "done"} /\ pc'[t] = "first_cpu"

StartCalled == last_call' # last_call /\ last_call'[1] = "start"

StopCalled == last_call' # last_call /\ last_call'[1] = "stop"

DeliveredIds(t) == [i \in 1..Len(delivered[t]) |-> delivered[t][i].cb]

\* C1: at most one monitor thread is executing a cycle at any time.
C1_SingleLoopContext == Cardinality({t \in Threads : InCycle(t)}) <= 1

\* C2: start() while Running and stop() while Stopped change nothing of the
\* monitor; self.running only changes Stopped -start-> Running, creating exactly
\* the one thread that becomes _monitor_thread, and Running -stop-> Stopped; no
\* other step creates a thread.
C2_StartStopIdempotent ==
    [][ /\ (StartCalled /\ running) =>
              UNCHANGED <<running, monitor_thread, callbacks, process_cache,
                          system_cpu_percent, lock, pc, cyc, cpu_ok, replaced, stats, delivered,
                          caller, cycles, cache_cycle>>
        /\ (StopCalled /\ ~running) =>
              UNCHANGED <<running, monitor_thread, callbacks, process_cache,
                          system_cpu_percent, lock, pc, cyc, cpu_ok, replaced, stats, delivered,
                          cycles, cache_cycle>>
        /\ (~running /\ running') =>
              /\ StartCalled
              /\ Cardinality({t \in Threads : Spawned(t)}) = 1
              /\ Spawned(monitor_thread')
        /\ (running /\ ~running') => (StopCalled /\ pc' = pc)
        /\ \A t \in Threads : Spawned(t) => (StartCalled /\ ~running /\ running')
      ]_vars

\* C2 witness: start() has been called while Running.
C2_Witness == last_call = <<"start", TRUE>> /\ running /\ \E t \in Threads : InCycle(t)

\* C3: what get_current_stats returned to the reader is one complete snapshot:
\* process_count is the length of processes, and processes and cpu_percent are
\* those of the same cycle.
C3_StatsSnapshotComplete ==
    pc[Reader] = "idle" =>
        /\ stats[Reader].process_count = Len(stats[Reader].processes)
        /\ stats[Reader].list_cycle = stats[Reader].cpu_percent

\* C4: a step that writes the process cache or the system CPU value is taken by
\* a thread that holds the lock.
C4_CacheWriteUnderLock ==
    [][ (process_cache' # process_cache \/ cache_cycle' # cache_cycle
           \/ system_cpu_percent' # system_cpu_percent)
        => \E t \in Threads : pc'[t] # pc[t] /\ lock = t ]_vars

\* C5: the stats a thread hands to its callbacks hold the process list, the
\* process count and (when this cycle's CPU reading succeeded) the CPU value of
\* that thread's own cycle.
C5_CallbackStatsOfOwnCycle ==
    \A t \in Threads :
        (pc[t] = "notify" /\ delivered[t] # <<>> /\ cpu_ok[t]) =>
            /\ stats[t].list_cycle = cyc[t]
            /\ stats[t].processes = CollectProcessesOptimized(OsEnumeration(cyc[t]))
            /\ stats[t].process_count = Len(stats[t].processes)
            /\ stats[t].cpu_percent = cyc[t]

\* C6: a callback that raises leaves the thread in the for loop; from there the
\* thread's next step calls the next registered callback, or, when every
\* registered callback has been called, goes to the normal sleep.
C6_CallbackExceptionIsolated ==
    [][ \A t \in Threads :
          /\ (Len(delivered'[t]) > Len(delivered[t])
                /\ delivered'[t][Len(delivered'[t])].raised)
             => pc'[t] = "notify"
          /\ (pc[t] = "notify" /\ delivered[t] # <<>>
                /\ delivered[t][Len(delivered[t])].raised
                /\ (pc'[t] # pc[t] \/ delivered'[t] # delivered[t]))
             => IF Len(delivered[t]) < Len(callbacks)
                THEN /\ pc'[t] = "notify"
                     /\ Len(delivered'[t]) = Len(delivered[t]) + 1
                     /\ delivered'[t][Len(delivered'[t])].cb = callbacks[Len(delivered[t]) + 1]
                ELSE pc'[t] = "sleep"
      ]_vars

\* C6 witness: the first callback raised and the second one has been called.
C6_Witness ==
    \E t \in Threads :
        /\ pc[t] = "notify"
        /\ Len(delivered[t]) = 2
        /\ delivered[t][1].raised

\* C7 as claimed: a cycle whose sampling succeeded ends (goes to sleep) having
\* called every registered callback exactly once, in registration order.
C7_SampledCycleNotifiesAll ==
    [][ \A t \in Threads :
          (pc[t] \in {"cpu", "ram", "stats", "gs_count", "gs_list", "notify"}
             /\ pc'[t] \in {"sleep", "errsleep"})
          => DeliveredIds(t) = callbacks ]_vars

\* C7 amended: a cycle that gets as far as the for loop (sampling, the RAM read
\* and get_current_stats all succeeded) ends in the normal sleep having called
\* every registration of self.callbacks exactly once, in registration order;
\* callbacks are called only in the for loop, after this cycle's cache
\* replacement and before the sleep.
C7_NotifiedCycleCallsAllInOrder ==
    [][ \A t \in Threads :
          /\ (pc[t] = "notify" /\ pc'[t] # "notify")
             => (pc'[t] = "sleep" /\ DeliveredIds(t) = callbacks)
          /\ delivered'[t] # <<>>
             => /\ pc'[t] = "notify"
                /\ replaced'[t]
                /\ Len(delivered'[t]) <= Len(callbacks')
                /\ \A i \in 1..Len(delivered'[t]) : delivered'[t][i].cb = callbacks'[i]
      ]_vars

\* C7 witness: a thread has called two callbacks in one cycle.
C7_Witness ==
    \E t \in Threads :
        /\ pc[t] = "notify"
        /\ Len(callbacks) = 2
        /\ DeliveredIds(t) = callbacks

\* C8: a thread sleeping after a failed cycle starts a next cycle, unless the
\* running flag is cleared (or the cycles of the model are used up).
C8_ErrorNeverEndsLoop ==
    \A t \in Threads :
        (pc[t] = "errsleep") ~> (pc[t] = "collect" \/ ~running \/ cycles >= MaxCycles)

\* C8 witness: a cycle has failed while Running, with cycles left.
C8_Witness ==
    \E t \in Threads : pc[t] = "errsleep" /\ running /\ cycles < MaxCycles

\* C9: the thread ends only at the while test and only with the flag false
\* (or in the measurement before the loop), a cycle starts only with the flag
\* true, and with the flag false every live thread ends unless start() sets the
\* flag again.
C9_StopAtCycleBoundary ==
    /\ [][ \A t \in Threads :
             /\ (pc[t] # "done" /\ pc'[t] = "done")
                => (pc[t] = "first_cpu" \/ (pc[t] = "while" /\ ~running))
             /\ (pc[t] # "collect" /\ pc'[t] = "collect")
                => (pc[t] = "while" /\ running) ]_vars
    /\ \A t \in Threads : (~running /\ Alive(t)) ~> (~Alive(t) \/ running)

\* C9 witness: the flag is false while a thread is in the middle of a cycle.
C9_Witness == \E t \in Threads : ~running /\ pc[t] = "notify" /\ delivered[t] # <<>>

\* C10 as claimed: kill_process on a process whose name, as read, is a member of
\* this system's critical set fails with the critical-process error and calls
\* neither terminate nor kill.
C10_CriticalNeverKilled ==
    (kill_call.named /\ kill_call.name \in CriticalProcesses(os_type)) =>
        /\ ~kill_call.result.success
        /\ kill_call.result.text = "Cannot kill critical system process: {name}"
        /\ kill_call.calls = <<>>

\* a finished kill_process call on a process that is in no way critical: its
\* name matches no member of this system's critical set, whatever the case
KilledNonCritical(force) ==
    /\ kill_call.named
    /\ kill_call.force = force
    /\ Lower(kill_call.name) \notin {Lower(m) : m \in CriticalProcesses(os_type)}

\* what C11 says of the call order and of a wait that returns
C11_TerminateThenWait ==
    /\ kill_call.calls # <<>> /\ kill_call.calls[1] = "terminate"
    /\ (Len(kill_call.calls) >= 2
          => (kill_call.calls[2] = "wait" /\ kill_call.wait # "none"))
    /\ (\E i \in 1..Len(kill_call.calls) : kill_call.calls[i] = "kill")
          => (kill_call.wait = "TimeoutExpired"
                /\ kill_call.calls = <<"terminate", "wait", "kill">>)
    /\ kill_call.wait = "exited"
          => /\ kill_call.result = Result(TRUE, "message", "Process {name} (PID: {pid}) terminated")
             /\ kill_call.calls = <<"terminate", "wait">>

C12_ForceKillsDirectly ==
    KilledNonCritical(TRUE) =>
        /\ kill_call.calls = <<"kill">>
        /\ kill_call.wait = "none"

\* C12 witness: a forced call has returned success.
C12_Witness ==
    /\ KilledNonCritical(TRUE)
    /\ kill_call.result.success

\* the failure classes C13 names
NotFoundFaults == {"NoSuchProcess", "ZombieProcess"}

\* C13 as claimed: every finished kill_process call has returned a dict with a
\* boolean success and exactly one more key, message when success and error
\* otherwise; when an OS step raised, the error is the not-found error for a
\* process that does not exist, the access-denied error for a denied access,
\* and another error for any other fault.
C13_StructuredDistinctErrors ==
    kill_call # NoKill =>
        /\ kill_call.result.success \in BOOLEAN
        /\ kill_call.result.key \in {"message", "error"}
        /\ kill_call.result.success <=> kill_call.result.key = "message"
        /\ kill_call.raised # <<>> =>
             /\ ~kill_call.result.success
             /\ kill_call.raised[2] \in NotFoundFaults
                  <=> kill_call.result.text = "Process {pid} does not exist"
             /\ kill_call.raised[2] = "AccessDenied"
                  <=> kill_call.result.text
                        = "Access denied for PID {pid}. Try running as admin/root"

\* two characters are the same letter, whatever their case
SameLetter(a, b) ==
    \/ a = b
    \/ IsUpper(a) /\ a + 32 = b
    \/ IsUpper(b) /\ b + 32 = a

\* text occurs in name somewhere, case ignored
OccursIgnoringCase(text, name) ==
    \E i \in 0..(Len(name) - Len(text)) :
        \A j \in 1..Len(text) : SameLetter(text[j], name[i + j])

\* the cached processes a finished get_processes call must let through
GpMatching ==
    { i \in 1..Len(gp_call.cache) :
        gp_call.filter_text = <<>>
          \/ OccursIgnoringCase(gp_call.filter_text, gp_call.cache[i].name) }

GpResultSet == { gp_call.result[i] : i \in 1..Len(gp_call.result) }

\* C14: a finished get_processes call returns only cached processes that match
\* the filter, case ignored; when the limit truncates nothing it returns every
\* one of them, so nothing for a filter that matches nothing, and every cached
\* process for the empty filter.
C14_FilterIsCaseInsensitiveSubstring ==
    gp_call.taken =>
        /\ GpResultSet \subseteq { gp_call.cache[i] : i \in GpMatching }
        /\ gp_call.limit >= Len(gp_call.cache) =>
             /\ GpResultSet = { gp_call.cache[i] : i \in GpMatching }
             /\ Len(gp_call.result) = Cardinality(GpMatching)
        /\ (gp_call.filter_text = <<>> /\ gp_call.limit >= Len(gp_call.cache))
             => Len(gp_call.result) = Len(gp_call.cache)
        /\ GpMatching = {} => gp_call.result = <<>>

\* C14 witness: the filter 'IN' has let 'init' and 'Init' through and kept
\* another process out.
C14_Witness ==
    /\ gp_call.taken
    /\ gp_call.filter_text = <<73,78>>
    /\ Len(gp_call.result) = 2
    /\ Len(gp_call.cache) = 3

\* the key C15 says an argument sort_by sorts by
GpKey(p) ==
    IF gp_call.sort_by = "memory" THEN <<p.memory>>
    ELSE IF gp_call.sort_by = "name" THEN [i \in 1..Len(p.name) |-> LowerChar(p.name[i])]
    ELSE IF gp_call.sort_by = "pid" THEN <<p.pid>>
    ELSE <<p.cpu>>

\* C15: the result of a finished get_processes call is in the order of the key
\* sort_by selects (cpu, memory, lower-cased name, pid), ascending when reverse
\* is false and descending when it is true; a sort_by outside the set gives
\* the list sort_by='cpu' gives.
C15_OrderedBySelectedKey ==
    gp_call.taken =>
        /\ \A i, j \in 1..Len(gp_call.result) :
             i < j => IF gp_call.reverse
                      THEN ~KeyLess(GpKey(gp_call.result[i]), GpKey(gp_call.result[j]))
                      ELSE ~KeyLess(GpKey(gp_call.result[j]), GpKey(gp_call.result[i]))
        /\ gp_call.sort_by \notin SortKeys
             => gp_call.result = GetProcesses(gp_call.cache, "cpu", gp_call.reverse,
                                              gp_call.limit, gp_call.filter_text)

\* C15 witness: sort_by='name', reverse=false has put 'Xorg' behind 'python'.
C15_Witness ==
    /\ gp_call.taken
    /\ gp_call.sort_by = "name"
    /\ ~gp_call.reverse
    /\ Len(gp_call.result) = 2
    /\ gp_call.result[1].name = <<112,121,116,104,111,110>>
    /\ gp_call.result[2].name = <<88,111,114,103>>
    /\ gp_call.cache[1].name = <<88,111,114,103>>

\* the place of a process in the copy of the cache
GpCachePos(p) == CHOOSE i \in 1..Len(gp_call.cache) : gp_call.cache[i] = p

\* p stands before q in the fully sorted list: by key, and by place in the
\* cache when the keys are equal
GpPrecedes(p, q) ==
    \/ SortsBefore(gp_call.sort_by, gp_call.reverse, p, q)
    \/ /\ ~SortsBefore(gp_call.sort_by, gp_call.reverse, q, p)
       /\ GpCachePos(p) < GpCachePos(q)

\* C16: for a limit >= 0 the result of a finished get_processes call holds
\* min(limit, number of matches) processes; they are the matches that stand
\* first in the sorted order of all matches, in that order, and processes
\* with equal keys stand in cache order, whatever reverse is.
C16_FilterSortTruncate ==
    (gp_call.taken /\ gp_call.limit >= 0) =>
        /\ Len(gp_call.result)
             = IF gp_call.limit < Cardinality(GpMatching) THEN gp_call.limit
               ELSE Cardinality(GpMatching)
        /\ \A i, j \in 1..Len(gp_call.result) :
             i < j => GpPrecedes(gp_call.result[i], gp_call.result[j])
        /\ \A i \in 1..Len(gp_call.result) :
             \A k \in GpMatching :
                gp_call.cache[k] \notin GpResultSet
                  => GpPrecedes(gp_call.result[i], gp_call.cache[k])

\* C16 witness: a descending sort by cpu has kept 'init' before 'Init', which
\* has the same cpu, and the limit has cut a third match off.
C16_Witness ==
    /\ gp_call.taken
    /\ gp_call.sort_by = "cpu"
    /\ gp_call.reverse
    /\ gp_call.limit = 2
    /\ Len(gp_call.cache) = 3
    /\ GpMatching = {1, 2, 3}
    /\ gp_call.result[1].pid = 1
    /\ gp_call.result[2].pid = 4

\* the items of the pass just ended that were read without a fault
CleanItems == { i \in 1..Len(sample.enum) : sample.enum[i].fault = "none" }

\* C17: a pass in which no process fails, or processes fail only as vanished,
\* access-denied or zombie, ends normally, and the cache then holds exactly the
\* processes read without a fault, each once, and nothing else.
C17_PassOmitsOnlyFailedProcesses ==
    sample.taken =>
        /\ (\A i \in 1..Len(sample.enum) :
              sample.enum[i].fault \in {"none", "NoSuchProcess", "AccessDenied", "ZombieProcess"})
             => ~sample.raised
        /\ ~sample.raised =>
             /\ Len(process_cache) = Cardinality(CleanItems)
             /\ { process_cache[i].pid : i \in 1..Len(process_cache) }
                  = { sample.enum[i].pid : i \in CleanItems }
             /\ \A i \in 1..Len(process_cache) :
                  \E k \in CleanItems :
                     /\ process_cache[i].pid = sample.enum[k].pid
                     /\ process_cache[i].name = sample.enum[k].name
                     /\ process_cache[i].status = sample.enum[k].status
                     /\ process_cache[i].cpu
                          = (IF sample.enum[k].cpu_percent = <<>> THEN 0
                             ELSE sample.enum[k].cpu_percent[1])
                     /\ process_cache[i].memory
                          = (IF sample.enum[k].memory_info = <<>> THEN 0
                             ELSE sample.enum[k].memory_info[1])

\* C17 witness: a pass has met a zombie first and read two processes after it.
C17_Witness ==
    /\ sample.taken
    /\ ~sample.raised
    /\ Len(sample.enum) = 3
    /\ sample.enum[1].fault = "ZombieProcess"
    /\ Len(process_cache) = 2

\* C18: every tracked name's cpu, memory and timestamp histories hold at most
\* history_size entries.
C18_HistoryBounded ==
    \A name \in DOMAIN process_history :
        /\ Len(process_history[name].cpu) <= HistorySize
        /\ Len(process_history[name].memory) <= HistorySize
        /\ Len(process_history[name].timestamps) <= HistorySize

\* C18 witness: a batch holding 'chrome' history_size + 1 times has been
\* recorded and the history is full.
C18_Witness ==
    /\ ai_call.op = "update"
    /\ Len(ai_call.batch) = HistorySize + 1
    /\ "chrome" \in DOMAIN process_history
    /\ Len(process_history["chrome"].cpu) = HistorySize

\* the age, at the cleanup of the update call just made, of the last sample a
\* name had before the call
AgeAtCleanup(name) ==
    ai_call'.cleanup
      - process_history[name].timestamps[Len(process_history[name].timestamps)]

HasThreeSamples(name) ==
    name \in DOMAIN process_history /\ Len(process_history[name].cpu) >= 3

\* C20 as claimed: in every state a name has a baseline if and only if its
\* history holds at least 3 samples.
C20_BaselineIffThreeSamples ==
    \A name \in DOMAIN process_history \cup DOMAIN baselines :
        name \in DOMAIN baselines <=> HasThreeSamples(name)

\* C20 amended: in every state a name has a baseline only if its history
\* holds at least 3 samples, and in the state a detect_anomalies call leaves
\* every name whose history holds at least 3 samples has one.
C20_BaselineOnlyWithThreeSamples ==
    /\ \A name \in DOMAIN baselines : HasThreeSamples(name)
    /\ ai_call.op = "detect"
         => \A name \in DOMAIN process_history :
               HasThreeSamples(name) => name \in DOMAIN baselines

\* C20 witness: detect_anomalies has given 'chrome' a baseline while 'python',
\* with fewer samples, has none.
C20_Witness ==
    /\ ai_call.op = "detect"
    /\ "chrome" \in DOMAIN baselines
    /\ "python" \in DOMAIN process_history
    /\ "python" \notin DOMAIN baselines

\* ---------------------------------------------------------------- C21..C26
\* a detect_anomalies call has just returned
DetectCalled == ai_call.op = "detect"

\* the entries of that call's batch whose name has a baseline
BaselinedEntries ==
    { k \in 1..Len(ai_call.batch) : ai_call.batch[k].name \in DOMAIN baselines }

\* where the returned list holds an anomaly of a type for an entry
Reported(e, type) ==
    { i \in 1..Len(current_anomalies) :
        /\ current_anomalies[i].pid = e.pid
        /\ current_anomalies[i].anomaly_type = type }

SeverityOf(e, type) == { current_anomalies[i].severity : i \in Reported(e, type) }

\* C21: for an entry whose name has a baseline, high_cpu is reported exactly
\* when cpu > 50 and cpu > 2.5 times the baseline cpu mean, once, with severity
\* critical when cpu > 80 and high otherwise; with a mean of 10, a cpu of 30
\* gives nothing, 60 and 80 give high, 90 gives critical.
C21_HighCpuRule ==
    DetectCalled =>
        \A k \in BaselinedEntries :
            LET e == ai_call.batch[k]
                mean == baselines[e.name].cpu
            IN /\ (Reported(e, "high_cpu") # {})
                    <=> (e.cpu > 50 /\ 2 * e.cpu * mean[2] > 5 * mean[1])
               /\ Cardinality(Reported(e, "high_cpu")) <= 1
               /\ SeverityOf(e, "high_cpu") \subseteq {IF e.cpu > 80 THEN "critical" ELSE "high"}
               /\ mean[1] = 10 * mean[2] =>
                    /\ e.cpu = 30 => SeverityOf(e, "high_cpu") = {}
                    /\ e.cpu \in {60, 80} => SeverityOf(e, "high_cpu") = {"high"}
                    /\ e.cpu = 90 => SeverityOf(e, "high_cpu") = {"critical"}

\* a cpu of exactly 80 over a mean of 10 is reported as high
C21_Witness ==
    /\ DetectCalled
    /\ \E k \in BaselinedEntries :
         /\ ai_call.batch[k].cpu = 80
         /\ baselines[ai_call.batch[k].name].cpu = <<30, 3>>
         /\ SeverityOf(ai_call.batch[k], "high_cpu") = {"high"}

\* C22: for an entry whose name has a baseline, high_memory is reported
\* exactly when memory > 500 and memory > 2.5 times the baseline memory mean,
\* once, with severity critical when memory > 2000 and high otherwise.
C22_HighMemoryRule ==
    DetectCalled =>
        \A k \in BaselinedEntries :
            LET e == ai_call.batch[k]
                mean == baselines[e.name].memory
            IN /\ (Reported(e, "high_memory") # {})
                    <=> (e.memory > 500 /\ 2 * e.memory * mean[2] > 5 * mean[1])
               /\ Cardinality(Reported(e, "high_memory")) <= 1
               /\ SeverityOf(e, "high_memory")
                    \subseteq {IF e.memory > 2000 THEN "critical" ELSE "high"}

\* 2000 MB over a mean of 100 MB is reported as high
C22_Witness ==
    /\ DetectCalled
    /\ \E k \in BaselinedEntries :
         /\ ai_call.batch[k].memory = 2000
         /\ baselines[ai_call.batch[k].name].memory = <<300, 3>>
         /\ SeverityOf(ai_call.batch[k], "high_memory") = {"high"}

\* the last five memory samples of a name, fewer when it has fewer
LastFive(name) == LastN(HistoryOf(process_history, name).memory, 5)

SlopeIs(name, n) == Slope(LastFive(name))[1] = n * Slope(LastFive(name))[2]

\* C24: for the last five memory samples [100,110,120,130,140] the computed
\* slope is 10 and no memory_leak is reported; for [100,115,130,145,160] the
\* computed slope is 15 and memory_leak is reported with severity high.
C24_SlopeOfTheExamples ==
    DetectCalled =>
        \A k \in BaselinedEntries :
            LET e == ai_call.batch[k]
            IN /\ LastFive(e.name) = <<100, 110, 120, 130, 140>> =>
                    /\ SlopeIs(e.name, 10)
                    /\ Reported(e, "memory_leak") = {}
               /\ LastFive(e.name) = <<100, 115, 130, 145, 160>> =>
                    /\ SlopeIs(e.name, 15)
                    /\ SeverityOf(e, "memory_leak") = {"high"}

RuleOrder(type) ==
    IF type = "high_cpu" THEN 1
    ELSE IF type = "high_memory" THEN 2
    ELSE IF type = "memory_leak" THEN 3
    ELSE 4

EntryOrder(pid) == CHOOSE k \in 1..Len(ai_call.batch) : ai_call.batch[k].pid = pid

DetectedBefore(a, b) ==
    \/ EntryOrder(a.pid) < EntryOrder(b.pid)
    \/ /\ EntryOrder(a.pid) = EntryOrder(b.pid)
       /\ RuleOrder(a.anomaly_type) < RuleOrder(b.anomaly_type)

SeverityRank(severity) ==
    CASE severity = "critical" -> 0
      [] severity = "high" -> 1
      [] severity = "medium" -> 2
      [] severity = "low" -> 3

\* C26: the returned list is in non-decreasing severity rank (critical 0,
\* high 1, medium 2, low 3), and anomalies of equal severity are in the order
\* of detection: batch order, then high_cpu, high_memory, memory_leak,
\* sudden_spike.
C26_SeverityThenDetectionOrder ==
    DetectCalled =>
        \A i, j \in 1..Len(current_anomalies) :
            i < j =>
                LET a == current_anomalies[i]
                    b == current_anomalies[j]
                IN /\ SeverityRank(a.severity) <= SeverityRank(b.severity)
                   /\ SeverityRank(a.severity) = SeverityRank(b.severity)
                        => DetectedBefore(a, b)

\* the sort has moved an anomaly of the second entry before one of the first,
\* and has kept two of equal severity from different entries in batch order
C26_Witness ==
    /\ DetectCalled
    /\ \E i, j \in 1..Len(current_anomalies) :
         /\ i < j
         /\ EntryOrder(current_anomalies[i].pid) > EntryOrder(current_anomalies[j].pid)
    /\ \E i, j \in 1..Len(current_anomalies) :
         /\ i < j
         /\ current_anomalies[i].severity = current_anomalies[j].severity
         /\ EntryOrder(current_anomalies[i].pid) < EntryOrder(current_anomalies[j].pid)

\* ---------------------------------------------------------------- C27..C29
\* the time of the last generate_insights call that got past the cooldown
\* test, 0 when there is none
LastRan == IF gi_call.ran THEN gi_call.now ELSE gi_call.last_ran

\* C27: a generate_insights call made less than 30 s after the last call that
\* was not blocked returns an empty list and leaves last_insights_time as it
\* was; blocked calls do not extend the window: a call made 30 s or more
\* after the last call that was not blocked is not blocked.
C27_BlockedCallChangesNothing ==
    [][gi_call' # gi_call =>
         /\ (LastRan > 0 /\ gi_call'.now - LastRan < 30) =>
               /\ gi_call'.result = <<>>
               /\ ~gi_call'.ran
               /\ last_insights_time' = last_insights_time
         /\ gi_call'.now - LastRan >= 30 => gi_call'.ran]_vars

\* a call is blocked 29 s after the last call that was not blocked
C27_Witness ==
    /\ ~gi_call.ran
    /\ gi_call.last_ran > 0
    /\ gi_call.now = gi_call.last_ran + 29
    /\ last_insights_time = gi_call.last_ran

\* C28: every generate_insights call that is not blocked sets
\* last_insights_time to the time of the call, also when no rule fires, so
\* last_insights_time is the time of the last such call and two such calls
\* are at least 30 s apart.
C28_CooldownClockIsLastUnblockedCall ==
    /\ gi_call.now > 0 => last_insights_time = LastRan
    /\ (gi_call.ran /\ gi_call.last_ran > 0) => gi_call.now - gi_call.last_ran >= 30

\* a call without findings, 30 s after the one before it, has set the clock
C28_Witness ==
    /\ gi_call.ran
    /\ gi_call.result = <<>>
    /\ gi_call.last_ran > 0
    /\ gi_call.now = gi_call.last_ran + 30
    /\ last_insights_time = gi_call.now

\* the rule an insight comes from
RuleOf(insight) ==
    CASE insight.title \in {"CPU critica", "CPU elevada"} -> 1
      [] insight.title \in {"RAM critica", "RAM elevada"} -> 2
      [] insight.title = "Prediccion: Saturacion inminente" -> 3
      [] insight.title = "Muchos procesos activos" -> 4
      [] OTHER -> 0

\* the severities of the insights of a rule in the returned list
SeveritiesOf(rule) ==
    { gi_call.result[i].severity : i \in { j \in 1..Len(gi_call.result) :
                                              RuleOf(gi_call.result[j]) = rule } }

\* C29: a generate_insights call that is not blocked returns, in this order,
\* at most one CPU insight (critical if cpu > 80, else warning if cpu > 60),
\* at most one RAM insight (critical if ram > 85, else warning if ram > 70),
\* a saturation warning exactly when cpu > 70 and ram > 70, and an info
\* insight exactly when the process count is above 200; cpu 85, ram 90 and a
\* count of at most 200 give exactly three insights.
C29_InsightRules ==
    gi_call.ran =>
        LET cpu == gi_call.cpu_percent
            ram == gi_call.ram_percent
            result == gi_call.result
        IN /\ \A i \in 1..Len(result) : RuleOf(result[i]) \in 1..4
           /\ \A i, j \in 1..Len(result) : i < j => RuleOf(result[i]) < RuleOf(result[j])
           /\ SeveritiesOf(1) = IF cpu > 80 THEN {"critical"}
                                ELSE IF cpu > 60 THEN {"warning"} ELSE {}
           /\ SeveritiesOf(2) = IF ram > 85 THEN {"critical"}
                                ELSE IF ram > 70 THEN {"warning"} ELSE {}
           /\ SeveritiesOf(3) = IF cpu > 70 /\ ram > 70 THEN {"warning"} ELSE {}
           /\ SeveritiesOf(4) = IF gi_call.total_processes > 200 THEN {"info"} ELSE {}
           /\ (cpu = 85 /\ ram = 90 /\ gi_call.total_processes <= 200) =>
                 /\ Len(result) = 3
                 /\ result[1].severity = "critical" /\ RuleOf(result[1]) = 1
                 /\ result[2].severity = "critical" /\ RuleOf(result[2]) = 2
                 /\ result[3].severity = "warning" /\ RuleOf(result[3]) = 3

\* the call with cpu 85, ram 90 and 200 processes has returned three insights
C29_Witness ==
    /\ gi_call.ran
    /\ gi_call.cpu_percent = 85
    /\ gi_call.ram_percent = 90
    /\ gi_call.total_processes = 200
    /\ Len(gi_call.result) = 3

\* --------------------------------------------------------------------- C30
\* C30: after a cycle whose body fails, the next cycle starts at the next
\* scheduled tick, one update_interval after the failed cycle started, however
\* much of the interval had elapsed when it failed.
C30_FailedCycleKeepsCadence ==
    timing.failed => timing.next = timing.start_time + UpdateInterval

\* ---------------------------------------------------------------- C32..C39
\* the samples update_process_data was given for a name, in arrival order
LogOf(name) == IF name \in DOMAIN received.log THEN received.log[name] ELSE <<>>

\* how many of them came before the name's history was last deleted
PurgedOf(name) == IF name \in DOMAIN received.purged THEN received.purged[name] ELSE 0

Min(a, b) == IF a < b THEN a ELSE b

\* the history of a name is the last min(n, history_size) samples of its log
HoldsLastOf(name, n) ==
    LET h == process_history[name]
        log == LogOf(name)
        m == Min(n, HistorySize)
    IN /\ Len(h.cpu) = m
       /\ Len(h.memory) = m
       /\ Len(h.timestamps) = m
       /\ \A i \in 1..m :
            /\ h.cpu[i] = log[Len(log) - m + i].cpu
            /\ h.memory[i] = log[Len(log) - m + i].memory
            /\ h.timestamps[i] = log[Len(log) - m + i].timestamp

\* C32: after any sequence of update_process_data calls, the cpu, memory and
\* timestamp sequences of every tracked name have equal length and hold, in
\* arrival order, the most recent min(n, history_size) of the n samples
\* recorded for that name.
C32_HistoryIsLastSamplesRecorded ==
    \A name \in DOMAIN process_history : HoldsLastOf(name, Len(LogOf(name)))

\* C32 amended: the same of the n samples recorded for the name since its
\* history was last purged.
C32_HistoryIsLastSamplesSincePurge ==
    \A name \in DOMAIN process_history :
        HoldsLastOf(name, Len(LogOf(name)) - PurgedOf(name))

\* C32 witness: a name whose history was purged is tracked again and was
\* given more than history_size samples since.
C32_Witness ==
    \E name \in DOMAIN process_history :
        /\ PurgedOf(name) > 0
        /\ Len(LogOf(name)) - PurgedOf(name) > HistorySize
        /\ process_history[name].cpu[1] # LogOf(name)[PurgedOf(name) + 1].cpu

\* the last five memory samples of a name rise strictly
Rising(name) ==
    /\ Len(LastFive(name)) = 5
    /\ \A i \in 1..4 : LastFive(name)[i] < LastFive(name)[i + 1]

\* C33: a detect_anomalies call leaves in current_anomalies exactly the list it
\* returns; every anomaly of it is about an entry and a reading of this call's
\* batch; a call with the batch of the call before it reports the same
\* anomalies again; a call in which no rule can fire leaves current_anomalies
\* empty.
C33_DetectReplacesCurrentAnomalies ==
    [][ai_call'.op = "detect" =>
         /\ current_anomalies' = ai_call'.result
         /\ \A i \in 1..Len(current_anomalies') :
              \E k \in 1..Len(ai_call'.batch) :
                 LET e == ai_call'.batch[k]
                     a == current_anomalies'[i]
                 IN /\ e.pid = a.pid
                    /\ e.name = a.process_name
                    /\ a.current_value = IF a.anomaly_type \in {"high_cpu", "sudden_spike"}
                                         THEN e.cpu ELSE e.memory
         /\ (ai_call.op = "detect" /\ ai_call'.batch = ai_call.batch)
               => current_anomalies' = current_anomalies
         /\ (\A k \in 1..Len(ai_call'.batch) :
               /\ ai_call'.batch[k].cpu <= 30
               /\ ai_call'.batch[k].memory <= 500
               /\ ~Rising(ai_call'.batch[k].name))
               => current_anomalies' = <<>>]_vars

\* C33 witness: a call for a process with a baseline has returned nothing and
\* emptied a current_anomalies that held anomalies.
C33_Witness ==
    /\ DetectCalled
    /\ BaselinedEntries # {}
    /\ received.prior > 0
    /\ ai_call.result = <<>>
    /\ current_anomalies = <<>>

AnomalyTypes == {"high_cpu", "high_memory", "memory_leak", "sudden_spike"}

\* the condition of a rule, for an entry whose name has a baseline
Fires(e, type) ==
    LET base == baselines[e.name]
        cpu == HistoryOf(process_history, e.name).cpu
    IN CASE type = "high_cpu" ->
              e.cpu > 50 /\ 2 * e.cpu * base.cpu[2] > 5 * base.cpu[1]
         [] type = "high_memory" ->
              e.memory > 500 /\ 2 * e.memory * base.memory[2] > 5 * base.memory[1]
         [] type = "memory_leak" ->
              Rising(e.name) /\ LastFive(e.name)[5] - LastFive(e.name)[1] > 50
         [] type = "sudden_spike" ->
              Len(cpu) >= 2 /\ e.cpu > 3 * cpu[Len(cpu) - 1] /\ e.cpu > 30

\* C34: detect_anomalies reports anomalies only for entries whose name has a
\* baseline after the recomputation; for such an entry each of the four rules
\* is reported exactly when its own condition holds, whatever the others do,
\* and at most once; an entry whose name has fewer than 3 samples yields
\* nothing.
C34_RulesIndependentAndGated ==
    DetectCalled =>
        /\ \A i \in 1..Len(current_anomalies) :
             /\ current_anomalies[i].process_name \in DOMAIN baselines
             /\ current_anomalies[i].anomaly_type \in AnomalyTypes
             /\ \E k \in 1..Len(ai_call.batch) :
                  ai_call.batch[k].pid = current_anomalies[i].pid
        /\ \A k \in BaselinedEntries, type \in AnomalyTypes :
             /\ Cardinality(Reported(ai_call.batch[k], type)) <= 1
             /\ Reported(ai_call.batch[k], type) # {} <=> Fires(ai_call.batch[k], type)
        /\ \A k \in 1..Len(ai_call.batch) :
             Len(HistoryOf(process_history, ai_call.batch[k].name).cpu) < 3 =>
                 \A i \in 1..Len(current_anomalies) :
                     current_anomalies[i].pid # ai_call.batch[k].pid

\* C34 witness: one entry has yielded an anomaly of each of the four kinds.
C34_Witness ==
    /\ DetectCalled
    /\ \E k \in BaselinedEntries :
         \A type \in AnomalyTypes : Reported(ai_call.batch[k], type) # {}

\* C36: every name that has a baseline has a history entry, and that entry
\* holds at least 3 cpu, memory and timestamp samples.
C36_BaselineHasHistory ==
    \A name \in DOMAIN baselines :
        /\ name \in DOMAIN process_history
        /\ Len(process_history[name].cpu) >= 3
        /\ Len(process_history[name].memory) >= 3
        /\ Len(process_history[name].timestamps) >= 3

\* C36 witness: 'chrome', for which an anomaly was reported and which hence
\* had a baseline, has been purged by an update_process_data call and has
\* neither history nor baseline.
C36_Witness ==
    /\ ai_call.op = "update"
    /\ current_anomalies # <<>>
    /\ current_anomalies[1].process_name = "chrome"
    /\ "chrome" \notin DOMAIN process_history
    /\ "chrome" \notin DOMAIN baselines

\* C37: after update_process_data and then detect_anomalies with the same
\* batch, the sample sudden_spike compares an entry's cpu with, the
\* second-to-last of the name's history, was recorded by an earlier
\* update_process_data call than the last one.
C37_SpikeComparesWithEarlierCall ==
    (DetectCalled /\ ai_call.batch = received.batch) =>
        \A k \in BaselinedEntries :
            LET name == ai_call.batch[k].name
                cpu == HistoryOf(process_history, name).cpu
                log == LogOf(name)
            IN Len(cpu) >= 2 =>
                 /\ cpu[Len(cpu) - 1] = log[Len(log) - 1].cpu
                 /\ log[Len(log) - 1].call < updates

\* C39: a detect_anomalies call leaves process_history as it was, and every
\* step that changes process_history is an update_process_data call.
C39_OnlyUpdateWritesHistory ==
    [][/\ ai_call'.op = "detect" => process_history' = process_history
       /\ process_history' # process_history => updates' = updates + 1]_vars

\* C39 witness: detect_anomalies was called with a name that has no history
\* entry, and has none after the call.
C39_Witness ==
    /\ DetectCalled
    /\ \E k \in 1..Len(ai_call.batch) : ai_call.batch[k].name \notin DOMAIN process_history

\* ---------------------------------------------------------------- C38, C40
\* C38: kill_process returns success only if the name it read is, in lower
\* case, no member of this system's critical set, and a terminate or a kill
\* call was made on the process and did not raise.
C38_SuccessMeansSignalSent ==
    kill_call.result.success =>
        /\ kill_call.named
        /\ Lower(kill_call.name) \notin CriticalProcesses(os_type)
        /\ \E i \in 1..Len(kill_call.calls) :
             /\ kill_call.calls[i] \in {"terminate", "kill"}
             /\ kill_call.raised = <<>> \/ kill_call.raised[1] # kill_call.calls[i]

\* C38 witness: a successful call on a process whose name is written in the
\* critical set with capitals, which the check in lower case does not find.
C38_Witness ==
    /\ kill_call.result.success
    /\ kill_call.name \in CriticalProcesses(os_type)
    /\ kill_call.calls # <<>>

\* C40: whatever the limit, negative ones included, get_processes returns at
\* most max(0, limit) processes.
C40_AtMostLimit ==
    gp_call # NoGet => Len(gp_call.result) <= Max(0, gp_call.limit)


\* the cache pass k leaves behind
CacheOfPass(k) == IF k = 0 THEN <<>> ELSE CollectProcessesOptimized(PassEnumeration(k))

\* C31: the list a get_processes call returns is made of processes of one
\* sampling pass only, the pass whose cache the call copied, whatever passes
\* have replaced the cache since.
C31_ResultFromOnePass ==
    gp_call.taken =>
        \E k \in 0..MaxPasses :
            /\ gp_call.cache = CacheOfPass(k)
            /\ \A i \in 1..Len(gp_call.result) :
                 \E j \in 1..Len(CacheOfPass(k)) : gp_call.result[i] = CacheOfPass(k)[j]

\* C31 witness: a call has returned two processes or more of the pass it
\* copied, and the cache was replaced between the copy and the return.
C31_Witness ==
    /\ gp_call.taken
    /\ Len(gp_call.result) >= 2
    /\ gp_call.cache # <<>>
    /\ process_cache # gp_call.cache


\* C35: once the last call of start() or stop() is a stop() that has returned,
\* no step invokes a registered callback.
C35_NoCallbackAfterStop ==
    [][ (last_call[1] = "stop" /\ caller = "idle" /\ last_call' = last_call)
          => \A t \in Threads : Len(delivered'[t]) <= Len(delivered[t]) ]_vars

====
